---------------------------- MODULE Spec2Model ----------------------------
(***************************************************************************)
(* A model of the photo search plugin (src/main.ts): the URL detector,     *)
(* the aggregated search run by the search modal, and savePhoto.           *)
(*                                                                         *)
(* Strings are TLA+ strings; a character is a string of length one.        *)
(***************************************************************************)
EXTENDS Integers, Sequences, FiniteSets, TLC

VARIABLES
    urlCase,          \* URL detector: the parts the input string is built from
    urlInput,         \* URL detector: the input string
    urlResult,        \* URL detector: detectPhotoURL's return value, or Pending
    fmtCase,          \* metadata formatting: the inputs of the two functions
    fmtResult,        \* metadata formatting: their return values, or NotApplied
    settings,         \* PhotoSearchPlugin.settings
    modalOpen,        \* a PhotoSearchModal has been opened
    query,            \* PhotoSearchModal.query
    photos,           \* PhotoSearchModal.photos
    photosByProvider, \* PhotoSearchModal.photosByProvider
    container,        \* the elements of the modal's results container
    srch,             \* the invocations of searchAndDisplayPhotos
    contentEl,        \* the children of the modal's contentEl
    activeTab,        \* PhotoSearchModal.activeTab
    tabDom,           \* the provider tabs and tab contents in the results container
    lastClick,        \* history: the last click on a provider tab
    folderExists,     \* the vault: the save folder exists
    vaultFiles,       \* the vault: the files, each with the savePhoto call that wrote it
    editorInserts,    \* the metadata blocks inserted into the editor, in order
    notices,          \* the Notices shown by savePhoto, in order
    sv,               \* the invocations of savePhoto
    httpLog,          \* history: requests sent and responses received, in order
    consoleLog,       \* history: the console.error entries
    caught,           \* history: the errors caught by a catch block
    pages,            \* pagination: the PaginationState of each provider
    pageFetches,      \* pagination: the page fetches in flight
    pageView,         \* pagination: what the controls of each provider show
    pageLog,          \* history: page fetches sent and answered, in order
    pageNotices,      \* pagination: the Notices shown by loadPage, in order
    cursor,           \* the editor: the insertion point of the active note
    overlays,         \* the preview overlays created, in order
    currentPreviewOverlay, \* PhotoSearchModal.currentPreviewOverlay, 0 for null
    timers,           \* the removal timers of hideImagePreview that are pending
    escapeHandlers,   \* the overlays whose keydown listener is on the document
    uiEvent           \* history: the last action of the user on a preview

urlVars == <<urlCase, urlInput, urlResult>>

fmtVars == <<fmtCase, fmtResult>>

modalVars == <<modalOpen, query, photos, photosByProvider, container, srch,
               contentEl, activeTab, tabDom, lastClick>>

saveVars == <<folderExists, vaultFiles, editorInserts, notices, sv, cursor>>

previewVars == <<overlays, currentPreviewOverlay, timers, escapeHandlers, uiEvent>>

historyVars == <<httpLog, consoleLog, caught>>

pageVars == <<pages, pageFetches, pageView, pageLog, pageNotices>>

vars == <<urlCase, urlInput, urlResult, fmtCase, fmtResult, settings, modalOpen,
          query, photos,
          photosByProvider, container, srch, contentEl, activeTab, tabDom,
          lastClick, folderExists, vaultFiles,
          editorInserts, notices, sv, httpLog, consoleLog, caught,
         pages, pageFetches, pageView, pageLog, pageNotices, cursor, overlays,
         currentPreviewOverlay, timers, escapeHandlers, uiEvent>>

(***************************************************************************)
(* Characters and JavaScript string helpers                                *)
(***************************************************************************)
CharAt(s, i) == SubSeq(s, i, i)

Digits == {"0", "1", "2", "3", "4", "5", "6", "7", "8", "9"}

LowerLetters ==
    {"a", "b", "c", "d", "e", "f", "g", "h", "i", "j", "k", "l", "m",
     "n", "o", "p", "q", "r", "s", "t", "u", "v", "w", "x", "y", "z"}

UpperLetters ==
    {"A", "B", "C", "D", "E", "F", "G", "H", "I", "J", "K", "L", "M",
     "N", "O", "P", "Q", "R", "S", "T", "U", "V", "W", "X", "Y", "Z"}

\* the regular expression class [a-zA-Z0-9_-]
SlugChars == LowerLetters \cup UpperLetters \cup Digits \cup {"_", "-"}

\* white space removed by String.prototype.trim
WhiteSpace == {" ", "\t", "\n"}

SetMin(S) == CHOOSE x \in S : \A y \in S : x <= y

SetMax(S) == CHOOSE x \in S : \A y \in S : x >= y

\* input.trim()
Trim(s) ==
    LET keep == {i \in 1..Len(s) : CharAt(s, i) \notin WhiteSpace}
    IN  IF keep = {} THEN "" ELSE SubSeq(s, SetMin(keep), SetMax(keep))

\* s.split(c)[0]: the text before the first occurrence of the character c
SplitFirst(s, c) ==
    LET hits == {i \in 1..Len(s) : CharAt(s, i) = c}
    IN  IF hits = {} THEN s ELSE SubSeq(s, 1, SetMin(hits) - 1)

\* the literal lit occurs in s at position i
LitAt(s, lit, i) ==
    /\ i >= 1
    /\ i + Len(lit) - 1 <= Len(s)
    /\ SubSeq(s, i, i + Len(lit) - 1) = lit

\* s[lo..hi] is non-empty and all its characters are in Class
RunOf(s, lo, hi, Class) ==
    /\ lo <= hi
    /\ \A k \in lo..hi : CharAt(s, k) \in Class

\* s[lo..hi] is non-empty and has no '/': the pattern [^\/]+
NoSlashRun(s, lo, hi) ==
    /\ lo <= hi
    /\ \A k \in lo..hi : CharAt(s, k) # "/"

\* The position of the last character before the pattern's tail \/?$ : an
\* input that ends in '/' has that '/' consumed by \/? (no other part of the
\* three patterns can end in '/').
BeforeTail(s) ==
    IF Len(s) > 0 /\ CharAt(s, Len(s)) = "/" THEN Len(s) - 1 ELSE Len(s)

NoMatch == [provider |-> "none", id |-> ""]

\* The pattern [^\/]+-(CLASS+) over s[b..e]: the positions of the '-' that
\* split s[b..e] into a non-empty '/'-free text, the '-', and a non-empty
\* run of Class.  A greedy [^\/]+ takes the last of them.
DashSplits(s, b, e, Class) ==
    {d \in (b + 1)..(e - 1) :
        /\ CharAt(s, d) = "-"
        /\ NoSlashRun(s, b, d - 1)
        /\ RunOf(s, d + 1, e, Class)}


(***************************************************************************)
(* detectPhotoURL (src/main.ts:487-520)                                    *)
(***************************************************************************)
\* A faulty variant of CleanInput: the '#fragment' is not removed.
CleanInputKeepFragment(input) == SplitFirst(Trim(input), "?")

\* const trimmedInput = input.trim();
\* const cleanedInput = trimmedInput.split('?')[0].split('#')[0];
CleanInput(input) == SplitFirst(SplitFirst(Trim(input), "?"), "#")

\* cleanedInput.match(/pexels\.com\/photo\/[^\/]+-(\d+)\/?$/): the captured
\* group, "" when there is no match.  The match is not anchored at its start:
\* the leftmost position where the whole pattern matches is taken.
PexelsMatch(s) ==
    LET lit   == "pexels.com/photo/"
        e     == BeforeTail(s)
        cands == {i \in 1..Len(s) :
                     /\ LitAt(s, lit, i)
                     /\ DashSplits(s, i + Len(lit), e, Digits) # {}}
    IN  IF cands = {} THEN ""
        ELSE LET i == SetMin(cands)
                 d == SetMax(DashSplits(s, i + Len(lit), e, Digits))
             IN  SubSeq(s, d + 1, e)

\* The part of the Unsplash pattern after 'unsplash\.com\/', tried at position
\* b: (?:photos\/(?:[^\/]+-)?|@[^\/]+\/)([a-zA-Z0-9_-]+)\/?$
\* Alternatives in the order the regular expression engine tries them:
\* photos/ with the optional greedy name-, photos/ without it, @user/.
UnsplashTail(s, b) ==
    LET e  == BeforeTail(s)
        g  == b + Len("photos/")
        ks == {k \in (b + 2)..(e - 1) :
                  /\ CharAt(s, k) = "/"
                  /\ NoSlashRun(s, b + 1, k - 1)
                  /\ RunOf(s, k + 1, e, SlugChars)}
    IN  IF LitAt(s, "photos/", b) /\ DashSplits(s, g, e, SlugChars) # {}
            THEN SubSeq(s, SetMax(DashSplits(s, g, e, SlugChars)) + 1, e)
        ELSE IF LitAt(s, "photos/", b) /\ RunOf(s, g, e, SlugChars)
            THEN SubSeq(s, g, e)
        ELSE IF LitAt(s, "@", b) /\ ks # {}
            THEN SubSeq(s, SetMax(ks) + 1, e)
        ELSE ""

\* cleanedInput.match(/unsplash\.com\/(?:photos\/(?:[^\/]+-)?|@[^\/]+\/)([a-zA-Z0-9_-]+)\/?$/)
UnsplashMatch(s) ==
    LET lit   == "unsplash.com/"
        cands == {i \in 1..Len(s) :
                     LitAt(s, lit, i) /\ UnsplashTail(s, i + Len(lit)) # ""}
    IN  IF cands = {} THEN "" ELSE UnsplashTail(s, SetMin(cands) + Len(lit))

\* The part of the Pixabay pattern after 'pixabay\.com\/', tried at position
\* b: (?:[a-z]{2}\/)?photos\/[^\/]+-(\d+)\/?$
\* The optional language directory is tried first, then its absence.
PixabayTail(s, b) ==
    LET e        == BeforeTail(s)
        withLang == /\ RunOf(s, b, b + 1, LowerLetters)
                    /\ LitAt(s, "/photos/", b + 2)
        gLang    == b + 2 + Len("/photos/")
        gPlain   == b + Len("photos/")
    IN  IF withLang /\ DashSplits(s, gLang, e, Digits) # {}
            THEN SubSeq(s, SetMax(DashSplits(s, gLang, e, Digits)) + 1, e)
        ELSE IF LitAt(s, "photos/", b) /\ DashSplits(s, gPlain, e, Digits) # {}
            THEN SubSeq(s, SetMax(DashSplits(s, gPlain, e, Digits)) + 1, e)
        ELSE ""

\* cleanedInput.match(/pixabay\.com\/(?:[a-z]{2}\/)?photos\/[^\/]+-(\d+)\/?$/)
PixabayMatch(s) ==
    LET lit   == "pixabay.com/"
        cands == {i \in 1..Len(s) :
                     LitAt(s, lit, i) /\ PixabayTail(s, i + Len(lit)) # ""}
    IN  IF cands = {} THEN "" ELSE PixabayTail(s, SetMin(cands) + Len(lit))

\* detectPhotoURL(input): { provider, id }, or NoMatch for null
detectPhotoURL(input) ==
    LET cleanedInput == CleanInput(input)
    IN  IF PexelsMatch(cleanedInput) # ""
            THEN [provider |-> "pexels", id |-> PexelsMatch(cleanedInput)]
        ELSE IF UnsplashMatch(cleanedInput) # ""
            THEN [provider |-> "unsplash", id |-> UnsplashMatch(cleanedInput)]
        ELSE IF PixabayMatch(cleanedInput) # ""
            THEN [provider |-> "pixabay", id |-> PixabayMatch(cleanedInput)]
        ELSE NoMatch

(***************************************************************************)
(* The inputs of the URL detector.  An input is the concatenation           *)
(*   lead \o prefix \o host \o segment \o tail \o suffix \o trail           *)
(* of parts drawn from the sets below; each host and segment carries what   *)
(* the documentation (src/README.md:243-248, the comments of                *)
(* src/main.ts:493-513) says about it.                                      *)
(***************************************************************************)
\* white space around the input: <<leading, trailing>>
UrlPadding == {<<"", "">>, <<" ", "">>, <<"  ", " \t">>}

\* what precedes the host name
UrlPrefixes == {"https://www.", "https://", "http://", "", "see x"}

\* host and path up to the last segment.  idForm is the form of identifier
\* the provider's URLs end in: "digits" (name-123456), "slug" (an optional
\* name- and a slug), "whole" (the whole last segment), "none" (not a
\* photo URL of a provider).  scheme is the prefix of the documented shape.
UrlHosts ==
    {[text |-> "pexels.com/photo/",      provider |-> "pexels",   idForm |-> "digits", scheme |-> "https://www."],
     [text |-> "unsplash.com/photos/",   provider |-> "unsplash", idForm |-> "slug",   scheme |-> "https://"],
     [text |-> "unsplash.com/@anna/",    provider |-> "unsplash", idForm |-> "whole",  scheme |-> "https://"],
     [text |-> "pixabay.com/photos/",    provider |-> "pixabay",  idForm |-> "digits", scheme |-> "https://"],
     [text |-> "pixabay.com/en/photos/", provider |-> "pixabay",  idForm |-> "digits", scheme |-> "https://"],
     [text |-> "pixabay.com/eng/photos/", provider |-> "none",    idForm |-> "none",   scheme |-> "https://"],
     [text |-> "pexels.com/photos/",     provider |-> "none",     idForm |-> "none",   scheme |-> "https://www."],
     [text |-> "example.com/photo/",     provider |-> "none",     idForm |-> "none",   scheme |-> "https://"],
     [text |-> "",                       provider |-> "none",     idForm |-> "none",   scheme |-> ""]}

\* the last path segment, with the identifier it holds in each form ("" when
\* the segment is not of that form): digits after the last '-', the slug after
\* the last '-' (the whole segment when there is none), the whole segment.
UrlSegments ==
    {[text |-> "beautiful-sunset-123456",   digits |-> "123456", slug |-> "123456",    whole |-> "beautiful-sunset-123456"],
     [text |-> "abc123xyz",                 digits |-> "",       slug |-> "abc123xyz", whole |-> "abc123xyz"],
     [text |-> "mountain-sunset-abc123xyz", digits |-> "",       slug |-> "abc123xyz", whole |-> "mountain-sunset-abc123xyz"],
     [text |-> "789012",                    digits |-> "",       slug |-> "789012",    whole |-> "789012"],
     [text |-> "lake_9-Zx_7",               digits |-> "",       slug |-> "Zx_7",      whole |-> "lake_9-Zx_7"],
     [text |-> "caf.e-42",                  digits |-> "42",     slug |-> "42",        whole |-> ""],
     [text |-> "mountains sunset",          digits |-> "",       slug |-> "",          whole |-> ""],
     [text |-> "",                          digits |-> "",       slug |-> "",          whole |-> ""]}

\* what follows the last segment: nothing, the trailing slash, a further
\* path segment
UrlTails == {"", "/", "/edit"}

\* query string and fragment
UrlSuffixes == {"", "?utm_source=test&utm_medium=referral", "#top", "?a=1#b", "#b?a=1"}

UrlCases ==
    [pad : UrlPadding, prefix : UrlPrefixes, host : UrlHosts,
     segment : UrlSegments, tail : UrlTails, suffix : UrlSuffixes]

UrlText(c) ==
    c.pad[1] \o c.prefix \o c.host.text \o c.segment.text \o c.tail
        \o c.suffix \o c.pad[2]

Pending == [provider |-> "pending", id |-> ""]

(***************************************************************************)
(* Providers, settings, photos and the providers' responses                *)
(***************************************************************************)
\* the providers, in the order searchPhotos queries them (src/main.ts:637-665)
ProviderSeq == <<"pexels", "unsplash", "pixabay">>

ProviderSet == {"pexels", "unsplash", "pixabay"}

\* Photo.source as each adapter sets it
SourceName(p) ==
    CASE p = "pexels"   -> "Pexels"
      [] p = "unsplash" -> "Unsplash"
      [] p = "pixabay"  -> "Pixabay"

\* the API key settings: "" (not configured) or a key
ApiKeyValues == {"", "KEY"}

\* PhotoSearchSettings (src/main.ts:3-12), the fields the modelled code reads
SettingsSet ==
    [pexelsApiKey : ApiKeyValues, unsplashApiKey : ApiKeyValues,
     pixabayApiKey : ApiKeyValues, saveLocation : {"Images/PhotoSearch"},
     includeAiImages : BOOLEAN, defaultProvider : {"unsplash"},
     saveMetadata : {TRUE}]

\* DEFAULT_SETTINGS (src/main.ts:14-23)
DEFAULT_SETTINGS ==
    [pexelsApiKey |-> "", unsplashApiKey |-> "", pixabayApiKey |-> "",
     saveLocation |-> "Images/PhotoSearch", includeAiImages |-> FALSE,
     defaultProvider |-> "unsplash", saveMetadata |-> TRUE]

ApiKey(p) ==
    CASE p = "pexels"   -> settings.pexelsApiKey
      [] p = "unsplash" -> settings.unsplashApiKey
      [] p = "pixabay"  -> settings.pixabayApiKey

\* a faulty variant of hasApiKeys: the check is missing
hasApiKeysAlways == TRUE

\* const hasApiKeys = pexelsApiKey || unsplashApiKey || pixabayApiKey
\* (src/main.ts:1014-1016, 1130-1132)
hasApiKeys ==
    \/ settings.pexelsApiKey # ""
    \/ settings.unsplashApiKey # ""
    \/ settings.pixabayApiKey # ""

\* A photo as a provider's API returns it.  ai_generated is read by the
\* Pexels adapter only; src stands for the image URL the adapter selects.
PexelsRaw1 ==
    [id |-> "123456", ai_generated |-> FALSE,
     src |-> "https://images.pexels.com/photos/123456/pexels-photo-123456.jpeg?auto=compress"]

PexelsRaw2 ==
    [id |-> "789012", ai_generated |-> TRUE,
     src |-> "https://images.pexels.com/photos/789012/pexels-photo-789012.PNG"]

UnsplashRaw1 ==
    [id |-> "abc123xyz", ai_generated |-> FALSE,
     src |-> "https://images.unsplash.com/photo-1500?ixid=abc&fm=jpg"]

PixabayRaw1 ==
    [id |-> "456789", ai_generated |-> FALSE,
     src |-> "https://pixabay.com/get/g456789_640.webp"]

\* isAiGenerated is true, false or undefined
AiFlag(b) == IF b THEN "true" ELSE "false"

\* the Photo built by the Pexels adapter (src/main.ts:553-565, 680-692)
PexelsPhoto(raw) ==
    [id |-> "pexels-" \o raw.id, source |-> "Pexels",
     isAiGenerated |-> AiFlag(raw.ai_generated), downloadUrl |-> raw.src]

\* the Photo built by the Unsplash adapter (src/main.ts:581-593, 703-715)
UnsplashPhoto(raw) ==
    [id |-> "unsplash-" \o raw.id, source |-> "Unsplash",
     isAiGenerated |-> "undefined", downloadUrl |-> raw.src]

\* A faulty variant of PixabayPhoto: the id is the provider's id, without
\* the prefix.
PixabayPhotoUnprefixed(raw) ==
    [id |-> raw.id, source |-> "Pixabay",
     isAiGenerated |-> "undefined", downloadUrl |-> raw.src]

\* the Photo built by the Pixabay adapter (src/main.ts:611-623, 723-735)
PixabayPhoto(raw) ==
    [id |-> "pixabay-" \o raw.id, source |-> "Pixabay",
     isAiGenerated |-> "undefined", downloadUrl |-> raw.src]

\* The outcome of a request: the request failed (requestUrl threw, or the
\* body is not the expected JSON), or it answered with a list of photos.
Failure == [st |-> "fail", items |-> <<>>]

Answer(items) == [st |-> "ok", items |-> items]

NoOutcome == [st |-> "none", items |-> <<>>]

\* what a provider's search endpoint may answer
SearchOutcomes(p) ==
    {Failure} \cup
    CASE p = "pexels"   -> {Answer(<<>>), Answer(<<PexelsRaw1>>),
                            Answer(<<PexelsRaw1, PexelsRaw2>>)}
      [] p = "unsplash" -> {Answer(<<>>), Answer(<<UnsplashRaw1>>)}
      [] p = "pixabay"  -> {Answer(<<>>), Answer(<<PixabayRaw1>>)}

\* what a provider's single-photo endpoint may answer for the identifier id:
\* the photo (Pixabay: a list of hits, possibly empty)
FetchOutcomes(p, id) ==
    {Failure} \cup
    CASE p = "pexels"   -> {Answer(<<[PexelsRaw1 EXCEPT !.id = id, !.ai_generated = b]>>) :
                                b \in BOOLEAN}
      [] p = "unsplash" -> {Answer(<<[UnsplashRaw1 EXCEPT !.id = id]>>)}
      [] p = "pixabay"  -> {Answer(<<>>), Answer(<<[PixabayRaw1 EXCEPT !.id = id]>>)}

\* searchPexels, searchUnsplash, searchPixabay after the response has
\* arrived (src/main.ts:678-692, 703-715, 723-735)
searchPexels(items) ==
    LET Keep(raw) == settings.includeAiImages \/ ~raw.ai_generated
        kept == SelectSeq(items, Keep)
    IN  [k \in 1..Len(kept) |-> PexelsPhoto(kept[k])]

searchUnsplash(items) == [k \in 1..Len(items) |-> UnsplashPhoto(items[k])]

searchPixabay(items) == [k \in 1..Len(items) |-> PixabayPhoto(items[k])]

SearchAdapter(p, items) ==
    CASE p = "pexels"   -> searchPexels(items)
      [] p = "unsplash" -> searchUnsplash(items)
      [] p = "pixabay"  -> searchPixabay(items)

\* fetchPexelsPhoto, fetchUnsplashPhoto, fetchPixabayPhoto after the response
\* has arrived: the list holding the photo, the empty list for null
\* (src/main.ts:552-565, 580-593, 605-623)
FetchAdapter(p, items) ==
    CASE p = "pexels"   -> <<PexelsPhoto(items[1])>>
      [] p = "unsplash" -> <<UnsplashPhoto(items[1])>>
      [] p = "pixabay"  -> IF Len(items) = 0 THEN <<>> ELSE <<PixabayPhoto(items[1])>>

(***************************************************************************)
(* The search modal: searchAndDisplayPhotos, searchPhotos, displayPhotos   *)
(***************************************************************************)
MaxSearches == 2

SearchIds == 1..MaxSearches

\* the queries a search is started with
Queries ==
    {"sunset",
     "https://www.pexels.com/photo/beautiful-sunset-123456/",
     "https://unsplash.com/photos/mountain-sunset-abc123xyz?utm_source=test",
     "https://pixabay.com/en/photos/lake-reflection-789012/#comments"}

\* the elements the modelled code puts into the results container
Element(el, provider) == [el |-> el, provider |-> provider]

LoadingEl == Element("loading-state", "")

ApiKeyErrorEl == Element("api-key-error", "")

UrlFeedbackEl(p) == Element("url-detection-feedback", p)

NotFoundEl(p) == Element("photo-not-found", p)

NoResultsEl == Element("no-photos-found", "")

TabsEl == Element("provider-tabs", "")

\* const loadingEl = container.querySelector('.loading-state');
\* if (loadingEl) loadingEl.remove();           (src/main.ts:1100-1101)
RemoveLoading(cont) ==
    LET hits == {k \in 1..Len(cont) : cont[k] = LoadingEl}
    IN  IF hits = {} THEN cont
        ELSE LET k == SetMin(hits)
             IN  SubSeq(cont, 1, k - 1) \o SubSeq(cont, k + 1, Len(cont))

\* one invocation of searchAndDisplayPhotos:
\*   pc       "unused", "fetching" (awaiting the single-photo request),
\*            "searching" (awaiting a search request), "done"
\*   query    the argument of searchPhotos
\*   urlInfo  the local urlInfo (src/main.ts:1064)
\*   called   plugin.searchPhotos has been called
\*   cur      the index in ProviderSeq of the provider awaited
\*   results  the local results of searchPhotos
\*   got      history: the outcome of each provider's request
\*   returned the value searchPhotos returned
UnusedSearch ==
    [pc |-> "unused", query |-> "", urlInfo |-> NoMatch, called |-> FALSE,
     cur |-> 0, results |-> <<>>,
     got |-> [p \in ProviderSet |-> NoOutcome], returned |-> <<>>]

\* the index of the first provider after index k whose API key is configured,
\* 0 when there is none: the if (this.settings.<p>ApiKey) chain of
\* searchPhotos
NextConfigured(k) ==
    LET later == {j \in (k + 1)..Len(ProviderSeq) : ApiKey(ProviderSeq[j]) # ""}
    IN  IF later = {} THEN 0 ELSE SetMin(later)

\* an entry of httpLog: invocation i sent a request to, or received the
\* response of, an endpoint of provider p
Event(i, ev, p, endpoint) ==
    [search |-> i, ev |-> ev, provider |-> p, endpoint |-> endpoint]

\* console.error and the catch block it is in
Catch(site) == [site |-> site, logged |-> TRUE]

\* a faulty variant of ResultsAfter: a failed provider discards the results
\* collected so far
ResultsAfterDropping(results, p, outcome) ==
    IF outcome.st = "ok" THEN results \o SearchAdapter(p, outcome.items) ELSE <<>>

\* try { results.push(...await this.search<P>(query)) } catch (error) { ... }
\* (src/main.ts:639-644, 649-654, 659-664): the results after provider p's
\* request ended with outcome
ResultsAfter(results, p, outcome) ==
    IF outcome.st = "ok" THEN results \o SearchAdapter(p, outcome.items) ELSE results

\* this.photosByProvider = { ... } (src/main.ts:1089-1093)
GroupByProvider(ph) ==
    LET From(name) == LET Is(x) == x.source = name IN SelectSeq(ph, Is)
    IN  [pexels |-> From("Pexels"), unsplash |-> From("Unsplash"),
         pixabay |-> From("Pixabay")]

\* a faulty variant of displayPhotos: an empty result is always reported as
\* a text search without results
displayPhotosNoUrlCheck(cont, ph, q) ==
    IF Len(ph) = 0
        THEN IF hasApiKeys THEN Append(cont, NoResultsEl) ELSE cont
        ELSE Append(cont, TabsEl)

\* displayPhotos(container) with this.photos = ph and this.query = q: the
\* container afterwards (src/main.ts:1111-1200)
displayPhotos(cont, ph, q) ==
    IF Len(ph) = 0
        THEN IF detectPhotoURL(q) # NoMatch
                 THEN Append(cont, NotFoundEl(detectPhotoURL(q).provider))
             ELSE IF hasApiKeys THEN Append(cont, NoResultsEl)
             ELSE cont
        ELSE Append(cont, TabsEl)

\* the results container holds no provider tabs
NoTabs ==
    [rendered |-> FALSE,
     tabs     |-> [p \in ProviderSet |-> [active |-> FALSE, disabled |-> FALSE, count |-> 0]],
     contents |-> [p \in ProviderSet |-> [active |-> FALSE]]]

\* A faulty variant of displayTabs: the tab of the default provider is
\* marked active, whatever this.activeTab is.
displayTabsOfDefault(ph, active) ==
    IF Len(ph) = 0 THEN NoTabs
    ELSE [rendered |-> TRUE,
          tabs     |-> [p \in ProviderSet |->
                           [active   |-> (settings.defaultProvider = p),
                            disabled |-> (ApiKey(p) = ""),
                            count    |-> Len(GroupByProvider(ph)[p])]],
          contents |-> [p \in ProviderSet |-> [active |-> (active = p)]]]

\* the provider tabs and the tab contents displayPhotos creates for
\* this.photos = ph and this.activeTab = active (src/main.ts:1145-1199)
displayTabs(ph, active) ==
    IF Len(ph) = 0 THEN NoTabs
    ELSE [rendered |-> TRUE,
          tabs     |-> [p \in ProviderSet |->
                           [active   |-> (active = p),
                            disabled |-> (ApiKey(p) = ""),
                            count    |-> Len(GroupByProvider(ph)[p])]],
          contents |-> [p \in ProviderSet |-> [active |-> (active = p)]]]

\* searchAndDisplayPhotos after 'await this.plugin.searchPhotos(this.query)'
\* has given returned (src/main.ts:1086-1103); urlInfo is the invocation's
\* local, cont the container and q this.query at that moment.
Display(returned, urlInfo, cont, q) ==
    /\ photos' = returned
    /\ photosByProvider' = GroupByProvider(returned)
    /\ container' =
           displayPhotos(IF urlInfo = NoMatch THEN <<>> ELSE RemoveLoading(cont),
                         returned, q)
    /\ tabDom' = displayTabs(returned, activeTab')

\* searchAndDisplayPhotos(container) up to its first pending request
\* (src/main.ts:1011-1086), with searchPhotos (626-640) and fetchPhotoByURL
\* (522-538) and the key checks of fetch<P>Photo (541, 569, 597) inside it.
\* i is the invocation, q this.query, cont the container when it is called.
BeginSearch(i, q, cont) ==
    LET urlInfo == detectPhotoURL(q)
        cont1   == IF urlInfo # NoMatch
                       THEN <<UrlFeedbackEl(urlInfo.provider)>> ELSE cont
        first   == NextConfigured(0)
        call    == [UnusedSearch EXCEPT !.query = q, !.urlInfo = urlInfo,
                                        !.called = TRUE]
    IN  IF ~hasApiKeys
            THEN \* the API key error is shown, searchPhotos is not called
                 /\ container' = <<ApiKeyErrorEl>>
                 /\ tabDom' = NoTabs
                 /\ srch' = [srch EXCEPT ![i] =
                        [UnusedSearch EXCEPT !.pc = "done", !.query = q]]
                 /\ UNCHANGED <<photos, photosByProvider, historyVars>>
        ELSE IF urlInfo # NoMatch /\ ApiKey(urlInfo.provider) = ""
            THEN \* fetch<P>Photo throws before any request; fetchPhotoByURL
                 \* catches, logs and returns null
                 /\ srch' = [srch EXCEPT ![i] = [call EXCEPT !.pc = "done"]]
                 /\ consoleLog' = Append(consoleLog, "Error fetching photo")
                 /\ caught' = Append(caught, Catch("fetchPhotoByURL"))
                 /\ Display(<<>>, urlInfo, cont1, q)
                 /\ UNCHANGED httpLog
        ELSE IF urlInfo # NoMatch
            THEN /\ srch' = [srch EXCEPT ![i] = [call EXCEPT !.pc = "fetching"]]
                 /\ httpLog' = Append(httpLog, Event(i, "send", urlInfo.provider, "photo"))
                 /\ container' = cont1
                 /\ tabDom' = NoTabs
                 /\ UNCHANGED <<photos, photosByProvider, consoleLog, caught>>
        ELSE IF first = 0
            THEN \* no provider is configured: searchPhotos returns []
                 /\ srch' = [srch EXCEPT ![i] = [call EXCEPT !.pc = "done"]]
                 /\ Display(<<>>, urlInfo, cont1, q)
                 /\ UNCHANGED historyVars
        ELSE     /\ srch' = [srch EXCEPT ![i] =
                        [call EXCEPT !.pc = "searching", !.cur = first]]
                 /\ httpLog' = Append(httpLog, Event(i, "send", ProviderSeq[first], "search"))
                 /\ container' = cont1
                 /\ tabDom' = NoTabs
                 /\ UNCHANGED <<photos, photosByProvider, consoleLog, caught>>

\* no invocation of searchAndDisplayPhotos is awaiting a response
NoSearchInFlight == \A i \in SearchIds : srch[i].pc \in {"unused", "done"}

\* openPhotoSearchModal(q): the constructor and onOpen (src/main.ts:478-480,
\* 934-940, 942-1002)
OpenModal(q) ==
    /\ ~modalOpen
    /\ srch[1].pc = "unused"
    /\ modalOpen' = TRUE
    /\ query' = q
    /\ activeTab' = settings.defaultProvider
    /\ contentEl' = <<"search-container", "search-controls", "results-container">>
    /\ UNCHANGED lastClick
    /\ BeginSearch(1, q, <<LoadingEl>>)
    /\ UNCHANGED <<urlVars, fmtVars, pageVars, settings, previewVars, saveVars>>

\* performSearch (src/main.ts:961-969) with q the trimmed value of the
\* input field, as invocation i.  Searches are started one after the other.
performSearch(i, q) ==
    /\ modalOpen
    /\ NoSearchInFlight
    /\ srch[i].pc = "unused"
    /\ \A j \in 1..(i - 1) : srch[j].pc = "done"
    /\ query' = q
    /\ UNCHANGED <<contentEl, activeTab, lastClick>>
    /\ BeginSearch(i, q, <<LoadingEl>>)
    /\ UNCHANGED <<urlVars, fmtVars, pageVars, settings, previewVars, modalOpen, saveVars>>

\* performSearch with q in the input field, as invocation i, while earlier
\* invocations may still await their responses: the Search button and the
\* Enter key stay usable during a search
performSearchOverlapping(i, q) ==
    /\ modalOpen
    /\ srch[i].pc = "unused"
    /\ \A j \in 1..(i - 1) : srch[j].pc # "unused"
    /\ query' = q
    /\ UNCHANGED <<contentEl, activeTab, lastClick>>
    /\ BeginSearch(i, q, <<LoadingEl>>)
    /\ UNCHANGED <<urlVars, fmtVars, pageVars, settings, previewVars, modalOpen, saveVars>>

\* The single-photo request of invocation i ends with outcome: the rest of
\* fetch<P>Photo, fetchPhotoByURL, searchPhotos (src/main.ts:630-631) and
\* searchAndDisplayPhotos.
FetchRespond(i, outcome) ==
    /\ srch[i].pc = "fetching"
    /\ UNCHANGED <<contentEl, activeTab, lastClick>>
    /\ LET p        == srch[i].urlInfo.provider
           returned == IF outcome.st = "ok" THEN FetchAdapter(p, outcome.items)
                       ELSE <<>>
       IN  /\ httpLog' = Append(httpLog, Event(i, "recv", p, "photo"))
           /\ IF outcome.st = "ok"
                  THEN UNCHANGED <<consoleLog, caught>>
                  ELSE /\ consoleLog' = Append(consoleLog, "Error fetching photo")
                       /\ caught' = Append(caught, Catch("fetchPhotoByURL"))
           /\ srch' = [srch EXCEPT ![i].pc = "done", ![i].got[p] = outcome,
                                   ![i].returned = returned]
           /\ Display(returned, srch[i].urlInfo, container, query)
    /\ UNCHANGED <<urlVars, fmtVars, pageVars, settings, previewVars, modalOpen, query, saveVars>>

\* The search request of invocation i to the provider awaited ends with
\* outcome: the rest of search<P>, the catch of searchPhotos, the request to
\* the next configured provider or, after the last one, the rest of
\* searchAndDisplayPhotos (src/main.ts:637-668, 1086-1103).
SearchRespond(i, outcome) ==
    /\ srch[i].pc = "searching"
    /\ UNCHANGED <<contentEl, activeTab, lastClick>>
    /\ LET p       == ProviderSeq[srch[i].cur]
           results == ResultsAfter(srch[i].results, p, outcome)
           nxt     == NextConfigured(srch[i].cur)
       IN  /\ IF outcome.st = "ok"
                  THEN UNCHANGED <<consoleLog, caught>>
                  ELSE /\ consoleLog' = Append(consoleLog, "Error searching " \o SourceName(p))
                       /\ caught' = Append(caught, Catch("searchPhotos"))
           /\ IF nxt # 0
                  THEN /\ httpLog' = httpLog \o
                              <<Event(i, "recv", p, "search"),
                                Event(i, "send", ProviderSeq[nxt], "search")>>
                       /\ srch' = [srch EXCEPT ![i].cur = nxt, ![i].got[p] = outcome,
                                               ![i].results = results]
                       /\ UNCHANGED <<photos, photosByProvider, container, tabDom>>
                  ELSE /\ httpLog' = Append(httpLog, Event(i, "recv", p, "search"))
                       /\ srch' = [srch EXCEPT ![i].pc = "done", ![i].got[p] = outcome,
                                               ![i].results = results,
                                               ![i].returned = results]
                       /\ Display(results, srch[i].urlInfo, container, query)
    /\ UNCHANGED <<urlVars, fmtVars, pageVars, settings, previewVars, modalOpen, query, saveVars>>

\* no provider tab has been clicked
NoClick == [provider |-> "none", before |-> "none"]

\* A faulty variant of showTabContent: the tab contents are left as they
\* were.
showTabContentTabsOnly(dom, active) ==
    [dom EXCEPT !.tabs = [p \in ProviderSet |->
                             [dom.tabs[p] EXCEPT !.active = (p = active)]]]

\* showTabContent(container) with this.activeTab = active
\* (src/main.ts:1202-1220)
showTabContent(dom, active) ==
    [dom EXCEPT !.tabs = [p \in ProviderSet |->
                             [dom.tabs[p] EXCEPT !.active = (p = active)]],
                !.contents = [p \in ProviderSet |->
                                 [dom.contents[p] EXCEPT !.active = (p = active)]]]

\* a click on the tab of provider p: the listener of an enabled tab
\* (src/main.ts:1173-1176); a disabled tab has none (src/main.ts:1169-1171)
ClickTab(p) ==
    /\ modalOpen
    /\ tabDom.rendered
    /\ lastClick' = [provider |-> p, before |-> activeTab]
    /\ IF tabDom.tabs[p].disabled
           THEN UNCHANGED <<activeTab, tabDom>>
           ELSE /\ activeTab' = p
                /\ tabDom' = showTabContent(tabDom, activeTab')
    /\ UNCHANGED <<urlVars, fmtVars, pageVars, settings, previewVars, modalOpen, query, photos,
                   photosByProvider, container, srch, contentEl, saveVars,
                   historyVars>>

\* no preview has been acted on
NoUiEvent == [kind |-> "none", overlay |-> 0]

\* hideImagePreview() called calls times in one handler, on the overlays ov
\* (src/main.ts:1362-1372): while this.currentPreviewOverlay is set, each
\* call removes the class show from it and sets a removal timer
hideImagePreview(ov, calls) ==
    [overlays |-> IF currentPreviewOverlay # 0 /\ calls > 0
                      THEN [ov EXCEPT ![currentPreviewOverlay].shown = FALSE]
                      ELSE ov,
     timers   |-> IF currentPreviewOverlay # 0 THEN timers + calls ELSE timers]

\* the overlays the user sees and can click: attached, with the class show
Visible == {o \in DOMAIN overlays : overlays[o].attached /\ overlays[o].shown}

\* the overlays a key press or the closing of the modal dismisses: those
\* the user sees and the one this.currentPreviewOverlay refers to
Open == Visible \cup ({currentPreviewOverlay} \ {0})

\* history: the overlays os are marked as dismissed by the user
Dismissed(os) ==
    [o \in DOMAIN overlays |->
        IF o \in os THEN [overlays[o] EXCEPT !.dismissed = TRUE] ELSE overlays[o]]

\* the modal is closed: onClose (src/main.ts:1374-1380).  The results
\* container leaves contentEl with its own children.
CloseModal ==
    /\ modalOpen
    /\ modalOpen' = FALSE
    /\ contentEl' = <<>>
    /\ overlays' = hideImagePreview(Dismissed(Open), 1).overlays
    /\ timers' = hideImagePreview(Dismissed(Open), 1).timers
    /\ UNCHANGED <<urlVars, fmtVars, pageVars, settings, query, photos, photosByProvider,
                   container, srch, activeTab, tabDom, lastClick, saveVars,
                   historyVars, currentPreviewOverlay, escapeHandlers, uiEvent>>

(***************************************************************************)
(* savePhoto (src/main.ts:738-873): file names                             *)
(***************************************************************************)
\* s.split(c).pop(): the text after the last occurrence of the character c
SplitLast(s, c) ==
    LET hits == {i \in 1..Len(s) : CharAt(s, i) = c}
    IN  IF hits = {} THEN s ELSE SubSeq(s, SetMax(hits) + 1, Len(s))

UpperAlphabet == "ABCDEFGHIJKLMNOPQRSTUVWXYZ"

LowerAlphabet == "abcdefghijklmnopqrstuvwxyz"

\* s.toLowerCase(), for the characters of the modelled URLs
RECURSIVE toLowerCase(_)
toLowerCase(s) ==
    IF s = "" THEN ""
    ELSE LET c  == CharAt(s, 1)
             at == {k \in 1..Len(UpperAlphabet) : CharAt(UpperAlphabet, k) = c}
             lc == IF at = {} THEN c ELSE CharAt(LowerAlphabet, SetMin(at))
         IN  lc \o toLowerCase(SubSeq(s, 2, Len(s)))

\* searchQuery.replace(/[^a-zA-Z0-9]/g, '_') (src/main.ts:758)
RECURSIVE sanitizedQuery(_)
sanitizedQuery(s) ==
    IF s = "" THEN ""
    ELSE LET c == CharAt(s, 1)
         IN  (IF c \in LowerLetters \cup UpperLetters \cup Digits THEN c ELSE "_")
                 \o sanitizedQuery(SubSeq(s, 2, Len(s)))

ValidExtensions == {"jpg", "jpeg", "png", "webp"}

\* the extension of the file a photo is saved to (src/main.ts:746-756)
Extension(photo) ==
    IF photo.source = "Unsplash" THEN "jpg"
    ELSE LET urlExtension == SplitFirst(SplitLast(photo.downloadUrl, "."), "?")
         IN  IF urlExtension # "" /\ toLowerCase(urlExtension) \in ValidExtensions
                 THEN toLowerCase(urlExtension)
                 ELSE "jpg"

\* `${sanitizedQuery}_${photo.id}.${extension}` (src/main.ts:759)
BaseFilename(photo, searchQuery) ==
    sanitizedQuery(searchQuery) \o "_" \o photo.id \o "." \o Extension(photo)

\* normalizePath of the Obsidian API, for the paths the modelled code
\* builds: runs of '/' become one '/', a leading and a trailing '/' are
\* removed (src/main.ts:760, 770)
RECURSIVE CollapseSlashes(_)
CollapseSlashes(s) ==
    IF Len(s) < 2 THEN s
    ELSE IF CharAt(s, 1) = "/" /\ CharAt(s, 2) = "/"
        THEN CollapseSlashes(SubSeq(s, 2, Len(s)))
    ELSE CharAt(s, 1) \o CollapseSlashes(SubSeq(s, 2, Len(s)))

normalizePath(s) ==
    LET c    == CollapseSlashes(s)
        from == IF c # "" /\ CharAt(c, 1) = "/" THEN 2 ELSE 1
        to   == IF Len(c) >= from /\ CharAt(c, Len(c)) = "/" THEN Len(c) - 1 ELSE Len(c)
    IN  SubSeq(c, from, to)

\* baseFilename.replace(/\.[^/.]+$/, "") (src/main.ts:767): the name without
\* its last '.extension'
BaseName(baseFilename) ==
    LET dots == {i \in 1..Len(baseFilename) : CharAt(baseFilename, i) = "."}
        last == SetMax(dots)
    IN  IF dots = {} \/ last = Len(baseFilename)
                     \/ \E i \in (last + 1)..Len(baseFilename) : CharAt(baseFilename, i) = "/"
            THEN baseFilename
            ELSE SubSeq(baseFilename, 1, last - 1)

\* `${baseName}_${counter}.${ext}` (src/main.ts:767-769)
SuffixedFilename(baseFilename, counter) ==
    BaseName(baseFilename) \o "_" \o ToString(counter) \o "."
        \o SplitLast(baseFilename, ".")

\* normalizePath(`${folder}/${filename}`) (src/main.ts:760, 770)
PathOf(folder, filename) == normalizePath(folder \o "/" \o filename)

\* A faulty variant of ActualFilename: the whole path is embedded.
ActualFilenameWholePath(finalPath, finalFilename) == finalPath

\* finalPath.split('/').pop() || finalFilename (src/main.ts:829)
ActualFilename(finalPath, finalFilename) ==
    IF SplitLast(finalPath, "/") # "" THEN SplitLast(finalPath, "/")
    ELSE finalFilename

(***************************************************************************)
(* savePhoto (src/main.ts:738-873): the steps between its awaits           *)
(***************************************************************************)
MaxSaves == 2

SaveIds == 1..MaxSaves

\* the values of the saveLocation setting
SaveLocations == {"Images/PhotoSearch", "Photos/"}

\* the photos savePhoto is called with, as the adapters build them
SavePhotos ==
    {PexelsPhoto(PexelsRaw2), UnsplashPhoto(UnsplashRaw1), PixabayPhoto(PixabayRaw1)}

\* the search queries savePhoto is called with; both give the same
\* sanitized query
SaveQueries == {"sun set", "sun_set"}

NoPhoto == [id |-> "", source |-> "", isAiGenerated |-> "undefined", downloadUrl |-> ""]

\* what a download request may end with: requestUrl throws, the response
\* has no or empty arrayBuffer, the response holds image data
DownloadOutcomes == {"throw", "empty", "data"}

\* a file of the vault: its path and the invocation of savePhoto that wrote
\* it, 0 for a file that was there before
VaultFile(path, by) == [path |-> path, by |-> by]

\* the vaults the plugin may start with, for the save folder folder
InitialVaults(folder) ==
    {{},
     {VaultFile(PathOf(folder, "sun_set_pexels-789012.png"), 0)},
     {VaultFile(PathOf(folder, "sun_set_pexels-789012_1.png"), 0)}}

\* an insertion point of the editor: a note and the line of the cursor in it
EditorPoint(note, line) == [note |-> note, line |-> line]

\* the insertion points the user may move to
EditorPoints ==
    {EditorPoint("Trip.md", 3), EditorPoint("Trip.md", 7), EditorPoint("Ideas.md", 0)}

\* the insertion point when the plugin is loaded
FirstCursor == EditorPoint("Trip.md", 3)

NoPoint == EditorPoint("", 0)

\* one invocation of savePhoto:
\*   pc            "unused", "existsFolder", "createFolder", "existsPath",
\*                 "download", "downloadAuth", "createBinary", "delay", "done"
\*   photo, searchQuery   the arguments
\*   baseFilename, finalFilename, finalPath, counter   the locals
\*   requests      history: the download requests sent, with their outcomes
\*   wrote         history: createBinary completed
\*   overwrote     history: createBinary replaced a file that existed
\*   inserted      history: the metadata block was inserted
\*   returned      the value returned, "" for undefined
\*   requestedAt   history: the insertion point when savePhoto was called
UnusedSave ==
    [pc |-> "unused", photo |-> NoPhoto, searchQuery |-> "", baseFilename |-> "",
     finalFilename |-> "", finalPath |-> "", counter |-> 0, requests |-> <<>>,
     wrote |-> FALSE, overwrote |-> FALSE, inserted |-> FALSE, returned |-> "",
     requestedAt |-> NoPoint]

\* A faulty variant of Request: every request carries the Client-ID header.
RequestAlwaysAuth(auth) == [auth |-> TRUE, outcome |-> "pending"]

\* a download request: whether it carries the Unsplash Client-ID header,
\* and how it ended ("pending" until then)
Request(auth) == [auth |-> auth, outcome |-> "pending"]

\* A faulty variant of PathExists: the path is never found.
PathExistsNever(path) == FALSE

\* this.app.vault.adapter.exists(finalPath) (src/main.ts:766)
PathExists(path) == \E f \in vaultFiles : f.path = path

\* A faulty variant of HasImageData: empty data is accepted.
HasImageDataUnchecked(outcome) == outcome # "throw"

\* the response holds image data: the negation of
\* !imageData || imageData.byteLength === 0 (src/main.ts:786, 801, 821)
HasImageData(outcome) == outcome = "data"

\* A faulty variant of SaveErrorNotice: the catch block shows no Notice.
SaveErrorNoticeMissing(i) == <<>>

\* new Notice('Error saving photo. Check console for details.')
\* (src/main.ts:871)
SaveErrorNotice(i) ==
    <<[save |-> i, kind |-> "error",
       text |-> "Error saving photo. Check console for details."]>>

\* new Notice(`Photo saved: ${actualFilename}`) (src/main.ts:867)
SaveSuccessNotice(i, actualFilename) ==
    <<[save |-> i, kind |-> "saved", text |-> "Photo saved: " \o actualFilename]>>

\* a catch block that discards the error it caught
SilentCatch(site) == [site |-> site, logged |-> FALSE]

\* the catch block of savePhoto (src/main.ts:869-872); s is the state of
\* invocation i when the error is thrown
SaveCatch(i, s) ==
    /\ consoleLog' = Append(consoleLog, "Error saving photo")
    /\ caught' = Append(caught, Catch("savePhoto"))
    /\ notices' = notices \o SaveErrorNotice(i)
    /\ sv' = [sv EXCEPT ![i] = [s EXCEPT !.pc = "done"]]

\* A faulty variant of ChooseFilename: the counter starts at 2.
ChooseFilenameFromTwo(i) ==
    LET baseFilename == BaseFilename(sv[i].photo, sv[i].searchQuery)
    IN  sv' = [sv EXCEPT ![i].pc = "existsPath",
                         ![i].baseFilename = baseFilename,
                         ![i].finalFilename = baseFilename,
                         ![i].finalPath = PathOf(settings.saveLocation, baseFilename),
                         ![i].counter = 2]

\* the file name is computed and the first exists(finalPath) of the loop is
\* awaited (src/main.ts:746-766)
ChooseFilename(i) ==
    LET baseFilename == BaseFilename(sv[i].photo, sv[i].searchQuery)
    IN  sv' = [sv EXCEPT ![i].pc = "existsPath",
                         ![i].baseFilename = baseFilename,
                         ![i].finalFilename = baseFilename,
                         ![i].finalPath = PathOf(settings.saveLocation, baseFilename),
                         ![i].counter = 1]

\* no invocation of savePhoto is between its call and its return
NoSaveInFlight == \A i \in SaveIds : sv[i].pc \in {"unused", "done"}

\* savePhoto(photo, searchQuery) is called, as invocation i, and awaits
\* exists(folder) (src/main.ts:738-741).  Saves run one after the other.
savePhoto(i, photo, searchQuery) ==
    /\ sv[i].pc = "unused"
    /\ NoSaveInFlight
    /\ \A j \in 1..(i - 1) : sv[j].pc = "done"
    /\ sv' = [sv EXCEPT ![i] = [UnusedSave EXCEPT !.pc = "existsFolder",
                                                  !.photo = photo,
                                                  !.searchQuery = searchQuery,
                                                  !.requestedAt = cursor]]
    /\ UNCHANGED <<urlVars, fmtVars, pageVars, settings, previewVars, modalVars, cursor,
                   folderExists, vaultFiles,
                   editorInserts, notices, historyVars>>

\* savePhoto(photo, searchQuery) is called, as invocation i, while earlier
\* invocations may still be awaiting: the Select Image listener does not
\* await savePhoto, and the modal can be opened again during a download
savePhotoOverlapping(i, photo, searchQuery) ==
    /\ sv[i].pc = "unused"
    /\ \A j \in 1..(i - 1) : sv[j].pc # "unused"
    /\ sv' = [sv EXCEPT ![i] = [UnusedSave EXCEPT !.pc = "existsFolder",
                                                  !.photo = photo,
                                                  !.searchQuery = searchQuery,
                                                  !.requestedAt = cursor]]
    /\ UNCHANGED <<urlVars, fmtVars, pageVars, settings, previewVars, modalVars, cursor,
                   folderExists, vaultFiles,
                   editorInserts, notices, historyVars>>

\* exists(folder) resolves (src/main.ts:741-742)
FolderChecked(i) ==
    /\ sv[i].pc = "existsFolder"
    /\ IF folderExists
           THEN ChooseFilename(i)
           ELSE sv' = [sv EXCEPT ![i].pc = "createFolder"]
    /\ UNCHANGED <<urlVars, fmtVars, pageVars, settings, previewVars, modalVars, cursor,
                   folderExists, vaultFiles,
                   editorInserts, notices, historyVars>>

\* createFolder(folder) resolves or rejects (src/main.ts:742)
FolderCreated(i, ok) ==
    /\ sv[i].pc = "createFolder"
    /\ IF ok
           THEN /\ folderExists' = TRUE
                /\ ChooseFilename(i)
                /\ UNCHANGED <<notices, consoleLog, caught>>
           ELSE /\ SaveCatch(i, sv[i])
                /\ UNCHANGED folderExists
    /\ UNCHANGED <<urlVars, fmtVars, pageVars, settings, previewVars, modalVars, cursor,
                   vaultFiles, editorInserts, httpLog>>

\* exists(finalPath) resolves: the next name is tried, or the loop ends and
\* the download is requested (src/main.ts:766-781, 810-815)
PathChecked(i) ==
    /\ sv[i].pc = "existsPath"
    /\ IF PathExists(sv[i].finalPath)
           THEN LET finalFilename == SuffixedFilename(sv[i].baseFilename, sv[i].counter)
                IN  sv' = [sv EXCEPT ![i].finalFilename = finalFilename,
                                     ![i].finalPath = PathOf(settings.saveLocation, finalFilename),
                                     ![i].counter = sv[i].counter + 1]
           ELSE sv' = [sv EXCEPT ![i].pc = "download",
                                 ![i].requests = <<Request(FALSE)>>]
    /\ UNCHANGED <<urlVars, fmtVars, pageVars, settings, previewVars, modalVars, cursor,
                   folderExists, vaultFiles,
                   editorInserts, notices, historyVars>>

\* A download request of invocation i ends with outcome (src/main.ts:776-823)
Downloaded(i, outcome) ==
    /\ sv[i].pc \in {"download", "downloadAuth"}
    /\ LET n       == Len(sv[i].requests)
           s       == [sv[i] EXCEPT !.requests[n].outcome = outcome]
           gotData == outcome # "throw" /\ HasImageData(outcome)
       IN  IF gotData
               THEN \* createBinary(finalPath, imageData) is awaited
                    /\ sv' = [sv EXCEPT ![i] = [s EXCEPT !.pc = "createBinary"]]
                    /\ UNCHANGED <<notices, consoleLog, caught>>
           ELSE IF sv[i].photo.source = "Unsplash" /\ sv[i].pc = "download"
               THEN \* catch (error) { try { await requestUrl({... headers ...}) } }:
                    \* the error is dropped, the request is repeated with the
                    \* Client-ID header
                    /\ sv' = [sv EXCEPT ![i] =
                           [s EXCEPT !.pc = "downloadAuth",
                                     !.requests = Append(s.requests, Request(TRUE))]]
                    /\ caught' = Append(caught, SilentCatch("savePhoto.download"))
                    /\ UNCHANGED <<notices, consoleLog>>
           ELSE SaveCatch(i, s)
    /\ UNCHANGED <<urlVars, fmtVars, pageVars, settings, previewVars, modalVars, cursor,
                   folderExists, vaultFiles,
                   editorInserts, httpLog>>

\* createBinary(finalPath, imageData) resolves or rejects (src/main.ts:826);
\* when it resolves, the file at finalPath holds the data of invocation i,
\* and the delay is awaited (src/main.ts:832)
Written(i, ok) ==
    /\ sv[i].pc = "createBinary"
    /\ IF ok
           THEN /\ vaultFiles' = {f \in vaultFiles : f.path # sv[i].finalPath}
                                     \cup {VaultFile(sv[i].finalPath, i)}
                /\ sv' = [sv EXCEPT ![i].pc = "delay", ![i].wrote = TRUE,
                              ![i].overwrote = \E f \in vaultFiles : f.path = sv[i].finalPath]
                /\ UNCHANGED <<notices, consoleLog, caught>>
           ELSE /\ SaveCatch(i, sv[i])
                /\ UNCHANGED vaultFiles
    /\ UNCHANGED <<urlVars, fmtVars, pageVars, settings, previewVars, modalVars, cursor,
                   folderExists, editorInserts, httpLog>>

\* the delay is over: the metadata block is inserted when a Markdown view is
\* active, at editor.getCursor() of that moment; the success Notice is shown,
\* finalPath is returned (src/main.ts:829-868)
Delayed(i, activeView) ==
    /\ sv[i].pc = "delay"
    /\ LET actualFilename == ActualFilename(sv[i].finalPath, sv[i].finalFilename)
       IN  /\ editorInserts' =
                  IF activeView
                      THEN Append(editorInserts,
                                  [save |-> i, filename |-> actualFilename,
                                   searchQuery |-> sv[i].searchQuery,
                                   at |-> cursor])
                      ELSE editorInserts
           /\ notices' = notices \o SaveSuccessNotice(i, actualFilename)
           /\ sv' = [sv EXCEPT ![i].pc = "done", ![i].inserted = activeView,
                               ![i].returned = sv[i].finalPath]
    /\ UNCHANGED <<urlVars, fmtVars, pageVars, settings, previewVars, modalVars, cursor,
                   folderExists, vaultFiles, historyVars>>

\* the user moves the cursor or activates another note
MoveCursor(c) ==
    /\ c # cursor
    /\ cursor' = c
    /\ UNCHANGED <<urlVars, fmtVars, pageVars, settings, previewVars, modalVars,
                   folderExists, vaultFiles, editorInserts, notices, sv, historyVars>>

(***************************************************************************)
(* The metadata block: calculateMaxPrintSize and formatAiStatus            *)
(* (src/main.ts:887-921)                                                   *)
(***************************************************************************)
\* (a * 2^e) % d
RECURSIVE MulPow2Mod(_, _, _)
MulPow2Mod(a, e, d) ==
    IF e = 0 THEN a % d ELSE MulPow2Mod((2 * a) % d, e - 1, d)

\* 2^e
RECURSIVE Pow2(_)
Pow2(e) == IF e = 0 THEN 1 ELSE 2 * Pow2(e - 1)

\* The IEEE 754 double nearest to p / d (p, d > 0), against p / d itself:
\* -1 when the double is below it, 0 when p / d is a double, 1 when above.
\* The double keeps 53 bits: with 2^52 <= p * 2^e / d < 2^53 it is the
\* quotient rounded to the nearest integer, so the remainder of p * 2^e by d
\* decides (a remainder of exactly d / 2 rounds to the even quotient).
DoubleErrorSign(p, d) ==
    LET up   == {k \in 0..20 : d * Pow2(k) <= p /\ p < d * Pow2(k + 1)}
        down == {k \in 1..20 : d <= p * Pow2(k) /\ p * Pow2(k) < 2 * d}
        e    == IF up # {} THEN 52 - SetMin(up) ELSE 52 + SetMin(down)
        r    == MulPow2Mod(p, e, d)
        odd  == MulPow2Mod(p, e, 2 * d) >= d
    IN  IF r = 0 THEN 0
        ELSE IF 2 * r < d THEN -1
        ELSE IF 2 * r > d THEN 1
        ELSE IF odd THEN 1 ELSE -1

\* (width / targetDPI).toFixed(1), in tenths of an inch.  toFixed takes the
\* tenth nearest to the double, the larger one when the double is exactly
\* between two (src/main.ts:888-896)
InchesTenths(pixels) ==
    LET n == pixels \div 30
        r == pixels % 30
    IN  IF r < 15 THEN n
        ELSE IF r > 15 THEN n + 1
        ELSE IF DoubleErrorSign(pixels, 300) >= 0 THEN n + 1 ELSE n

\* The double product (pixels / 300) * 2.54 against pixels * 127 / 15000 for
\* the pixel counts of PixelValues at which the latter lies exactly between
\* two tenths (pixels an odd multiple of 750): below at 750, above at 2250,
\* equal at 3750 (31.75 is a double).
ProductErrorSign(pixels) ==
    CASE pixels = 750  -> -1
      [] pixels = 2250 -> 1
      [] pixels = 3750 -> 0

\* A faulty variant of CmTenths: the centimetres are taken of the rounded
\* inches.
CmTenthsOfRounded(pixels) ==
    LET t == InchesTenths(pixels) * 254
    IN  IF t % 100 >= 50 THEN t \div 100 + 1 ELSE t \div 100

\* ((width / targetDPI) * 2.54).toFixed(1), in tenths of a centimetre: the
\* product is taken of the unrounded inches (src/main.ts:899-900).  Away
\* from a tie the double is far closer to the exact product than the
\* product is to a tie.
CmTenths(pixels) ==
    LET n == (pixels * 127) \div 1500
        r == (pixels * 127) % 1500
    IN  IF r < 750 THEN n
        ELSE IF r > 750 THEN n + 1
        ELSE IF ProductErrorSign(pixels) >= 0 THEN n + 1 ELSE n

\* the decimal text of tenths / 10 with one decimal place
Fixed1(tenths) == ToString(tenths \div 10) \o "." \o ToString(tenths % 10)

\* calculateMaxPrintSize(width, height) (src/main.ts:887-903)
calculateMaxPrintSize(width, height) ==
    Fixed1(InchesTenths(width)) \o "\" × " \o Fixed1(InchesTenths(height))
        \o "\" (" \o Fixed1(CmTenths(width)) \o " × " \o Fixed1(CmTenths(height))
        \o " cm) at 300 DPI"

\* A faulty variant of formatAiStatus: the setting is not looked at.
formatAiStatusNoSetting(isAiGenerated, source) ==
    IF isAiGenerated = "true" THEN "Yes"
    ELSE IF isAiGenerated = "false" THEN "No"
    ELSE IF source = "Unsplash" THEN "No (filtered)"
    ELSE IF source = "Pixabay" THEN "No (filtered)"
    ELSE "Unknown"

\* formatAiStatus(isAiGenerated, source) (src/main.ts:906-921)
formatAiStatus(isAiGenerated, source) ==
    IF isAiGenerated = "true" THEN "Yes"
    ELSE IF isAiGenerated = "false" THEN "No"
    ELSE IF source = "Unsplash" /\ ~settings.includeAiImages THEN "No (filtered)"
    ELSE IF source = "Pixabay" /\ ~settings.includeAiImages THEN "No (filtered)"
    ELSE "Unknown"

\* the pixel counts the functions are applied to: none, ties of the inches
\* (15, 45, 75), ties of the centimetres (750, 2250, 3750), common sizes
PixelValues == {0, 15, 45, 75, 640, 750, 2000, 2250, 3000, 3750}

\* the values of Photo.isAiGenerated
AiFlags == {"true", "false", "undefined"}

\* the values of Photo.source
Sources == {"Pexels", "Unsplash", "Pixabay"}

\* the inputs of the two functions
FormatCases ==
    [isAiGenerated : AiFlags, source : Sources, width : PixelValues, height : PixelValues]

\* a function that has not been applied yet
NotApplied == "(not applied)"

(***************************************************************************)
(* The preview overlay (src/main.ts:1272-1372)                             *)
(***************************************************************************)
\* the number of previews followed
MaxPreviews == 2

\* the number of pending removal timers up to which clicks on Close and on
\* the background are followed
MaxTimers == 3

\* the overlay showImagePreview appends to document.body for photo: attached,
\* the class show still to be added by the animation frame requested
\*   dismissed   history: the user has dismissed it
Overlay(photo) ==
    [photo |-> photo, attached |-> TRUE, shown |-> FALSE, frame |-> TRUE,
     dismissed |-> FALSE]

\* showImagePreview(imageUrl, photographer, photo) (src/main.ts:1279-1360)
showImagePreview(photo) ==
    LET h == hideImagePreview(overlays, 1)
    IN  /\ overlays' = Append(h.overlays, Overlay(photo))
        /\ timers' = h.timers
        /\ currentPreviewOverlay' = Len(overlays) + 1
        /\ escapeHandlers' = escapeHandlers \cup {Len(overlays) + 1}

\* the save invocation the next call of savePhoto is, 0 when none is left
NextSaveId ==
    LET unused == {i \in SaveIds : sv[i].pc = "unused"}
    IN  IF unused = {} THEN 0 ELSE SetMin(unused)

\* A faulty variant of ClickThumbnail, the one-step selection: the click
\* saves the photo and closes the modal.
ClickThumbnailSaving(photo) ==
    /\ modalOpen
    /\ tabDom.rendered
    /\ NextSaveId # 0
    /\ \E k \in 1..Len(photosByProvider[activeTab]) :
           photosByProvider[activeTab][k] = photo
    /\ Visible = {}
    /\ sv' = [sv EXCEPT ![NextSaveId] =
                  [UnusedSave EXCEPT !.pc = "existsFolder", !.photo = photo,
                                     !.searchQuery = query, !.requestedAt = cursor]]
    /\ modalOpen' = FALSE
    /\ contentEl' = <<>>
    /\ uiEvent' = [kind |-> "thumbnail", overlay |-> 0]
    /\ UNCHANGED <<urlVars, fmtVars, pageVars, settings, query, photos, photosByProvider,
                   container, srch, activeTab, tabDom, lastClick, folderExists,
                   vaultFiles, editorInserts, notices, cursor, historyVars,
                   overlays, currentPreviewOverlay, timers, escapeHandlers>>

\* a click on the thumbnail of photo in the grid of the active tab
\* (src/main.ts:1273-1275); no visible overlay covers the grid
ClickThumbnail(photo) ==
    /\ modalOpen
    /\ tabDom.rendered
    /\ Len(overlays) < MaxPreviews
    /\ \E k \in 1..Len(photosByProvider[activeTab]) :
           photosByProvider[activeTab][k] = photo
    /\ Visible = {}
    /\ showImagePreview(photo)
    /\ uiEvent' = [kind |-> "thumbnail", overlay |-> Len(overlays) + 1]
    /\ UNCHANGED <<urlVars, fmtVars, pageVars, settings, modalVars, saveVars, historyVars>>

\* the animation frame requested for overlay o (src/main.ts:1357-1359)
Animate(o) ==
    /\ o \in DOMAIN overlays
    /\ overlays[o].frame
    /\ overlays' = [overlays EXCEPT ![o].frame = FALSE, ![o].shown = TRUE]
    /\ UNCHANGED <<urlVars, fmtVars, pageVars, settings, modalVars, saveVars, historyVars,
                   currentPreviewOverlay, timers, escapeHandlers, uiEvent>>

\* a click on the Close button (src/main.ts:1303-1306) or, with kind
\* "background", on the background (src/main.ts:1341-1345) of overlay o
ClickDismiss(o, kind) ==
    /\ o \in Visible
    /\ timers < MaxTimers
    /\ overlays' = hideImagePreview(Dismissed({o}), 1).overlays
    /\ timers' = hideImagePreview(Dismissed({o}), 1).timers
    /\ uiEvent' = [kind |-> kind, overlay |-> o]
    /\ UNCHANGED <<urlVars, fmtVars, pageVars, settings, modalVars, saveVars, historyVars,
                   currentPreviewOverlay, escapeHandlers>>

\* the Escape key: every keydown listener on the document calls
\* hideImagePreview and removes itself (src/main.ts:1348-1354)
PressEscape ==
    /\ escapeHandlers # {}
    /\ overlays' = hideImagePreview(Dismissed(Open), Cardinality(escapeHandlers)).overlays
    /\ timers' = hideImagePreview(Dismissed(Open), Cardinality(escapeHandlers)).timers
    /\ escapeHandlers' = {}
    /\ uiEvent' = [kind |-> "escape", overlay |-> 0]
    /\ UNCHANGED <<urlVars, fmtVars, pageVars, settings, modalVars, saveVars, historyVars,
                   currentPreviewOverlay>>

\* a click on Select Image of overlay o (src/main.ts:1312-1316):
\* savePhoto(photo, this.query) runs up to its first await, then this.close()
\* with onClose
ClickSelect(o) ==
    /\ o \in Visible
    /\ NextSaveId # 0
    /\ sv' = [sv EXCEPT ![NextSaveId] =
                  [UnusedSave EXCEPT !.pc = "existsFolder",
                                     !.photo = overlays[o].photo,
                                     !.searchQuery = query,
                                     !.requestedAt = cursor]]
    /\ modalOpen' = FALSE
    /\ contentEl' = <<>>
    /\ overlays' = hideImagePreview(Dismissed({o}), 1).overlays
    /\ timers' = hideImagePreview(Dismissed({o}), 1).timers
    /\ uiEvent' = [kind |-> "select", overlay |-> o]
    /\ UNCHANGED <<urlVars, fmtVars, pageVars, settings, query, photos, photosByProvider,
                   container, srch, activeTab, tabDom, lastClick, folderExists,
                   vaultFiles, editorInserts, notices, cursor, historyVars,
                   currentPreviewOverlay, escapeHandlers>>

\* a removal timer of hideImagePreview fires (src/main.ts:1365-1370): it
\* removes the overlay this.currentPreviewOverlay refers to by then
TimerFires ==
    /\ timers > 0
    /\ timers' = timers - 1
    /\ IF currentPreviewOverlay # 0 /\ overlays[currentPreviewOverlay].attached
           THEN /\ overlays' = [overlays EXCEPT ![currentPreviewOverlay].attached = FALSE]
                /\ currentPreviewOverlay' = 0
           ELSE UNCHANGED <<overlays, currentPreviewOverlay>>
    /\ UNCHANGED <<urlVars, fmtVars, pageVars, settings, modalVars, saveVars, historyVars,
                   escapeHandlers, uiEvent>>

\* no preview has been opened
PreviewIdle ==
    /\ overlays = <<>>
    /\ currentPreviewOverlay = 0
    /\ timers = 0
    /\ escapeHandlers = {}
    /\ uiEvent = NoUiEvent

(***************************************************************************)
(* Pagination: loadPage, as src/unnamed/part_001 and the specification     *)
(* describe it; the method itself is not among the sources                 *)
(***************************************************************************)
\* the largest number of result pages of a provider
MaxPages == 3

\* the number of loadPage calls followed
MaxPageLoads == 3

\* the PaginationState of a provider whose first page of total is shown
FirstPage(total) ==
    [currentPage |-> 1, loadedPage |-> 1, totalPages |-> total, loading |-> FALSE]

\* addPaginationControls: 'Loading page X...' while the provider is loading,
\* 'Page X of Y' otherwise
addPaginationControls(st) ==
    [kind |-> IF st.loading THEN "loading" ELSE "info",
     page |-> st.currentPage,
     of   |-> st.totalPages]

\* the number of page fetches sent so far
PageSends == Cardinality({i \in 1..Len(pageLog) : pageLog[i].kind = "send"})

\* the page fetches of provider p in flight
FetchesOf(p) == {f \in pageFetches : f.provider = p}

\* loadPage(p, page) up to its pending request: the provider is marked
\* loading, the controls show the spinner, the page is requested.  A fetch of
\* the provider already in flight does not stop it.
loadPage(p, page) ==
    /\ PageSends < MaxPageLoads
    /\ pages' = [pages EXCEPT ![p].loading = TRUE, ![p].currentPage = page]
    /\ pageView' = [pageView EXCEPT ![p] = addPaginationControls(pages'[p])]
    /\ pageFetches' = pageFetches \cup
           {[id |-> PageSends + 1, provider |-> p, page |-> page]}
    /\ pageLog' = Append(pageLog, [kind |-> "send", provider |-> p, page |-> page])
    /\ UNCHANGED <<urlVars, fmtVars, settings, previewVars, modalVars, saveVars, historyVars,
                   pageNotices>>

\* a click on Next of provider p, enabled while a further page exists
ClickNext(p) ==
    /\ pages[p].currentPage < pages[p].totalPages
    /\ loadPage(p, pages[p].currentPage + 1)

\* a click on Previous of provider p, enabled from the second page on
ClickPrevious(p) ==
    /\ pages[p].currentPage > 1
    /\ loadPage(p, pages[p].currentPage - 1)

\* A faulty variant of ClearThenRender, the version before the fix: the
\* grid is re-rendered first and the loading flag cleared in the finally
\* block.
RenderThenClear(st) ==
    [state |-> [st EXCEPT !.loading = FALSE],
     view  |-> addPaginationControls(st)]

\* loadPage after the data was updated: the loading flag is cleared, then
\* the grid and the controls are re-rendered
ClearThenRender(st) ==
    LET cleared == [st EXCEPT !.loading = FALSE]
    IN  [state |-> cleared, view |-> addPaginationControls(cleared)]

\* A faulty variant of PageAfterError: the page number stays the requested
\* one.
PageAfterErrorKept(st) == [st EXCEPT !.loading = FALSE]

\* the catch of loadPage: the loading flag is cleared and the page number
\* reverted to the last page that was loaded
PageAfterError(st) ==
    [st EXCEPT !.loading = FALSE, !.currentPage = st.loadedPage]

\* the ways a page fetch ends
PageOutcomes == {"ok", "error"}

\* The page fetch f ends with outcome: the rest of loadPage.
PageRespond(f, outcome) ==
    /\ f \in pageFetches
    /\ pageFetches' = pageFetches \ {f}
    /\ pageLog' = Append(pageLog, [kind |-> outcome, provider |-> f.provider,
                                   page |-> f.page])
    /\ IF outcome = "ok"
           THEN LET r == ClearThenRender([pages[f.provider] EXCEPT
                                              !.currentPage = f.page,
                                              !.loadedPage = f.page])
                IN  /\ pages' = [pages EXCEPT ![f.provider] = r.state]
                    /\ pageView' = [pageView EXCEPT ![f.provider] = r.view]
                    /\ UNCHANGED pageNotices
           ELSE /\ pages' = [pages EXCEPT ![f.provider] = PageAfterError(pages[f.provider])]
                /\ pageView' = [pageView EXCEPT ![f.provider] =
                                    addPaginationControls(pages'[f.provider])]
                /\ pageNotices' = Append(pageNotices, "Error loading page")
    /\ UNCHANGED <<urlVars, fmtVars, settings, previewVars, modalVars, saveVars, historyVars>>

\* no results are shown yet: every provider is on its only page
PagesIdle ==
    /\ pages = [p \in ProviderSet |-> FirstPage(1)]
    /\ pageFetches = {}
    /\ pageView = [p \in ProviderSet |-> addPaginationControls(FirstPage(1))]
    /\ pageLog = <<>>
    /\ pageNotices = <<>>

(***************************************************************************)
(* Specifications                                                          *)
(***************************************************************************)
UrlIdle ==
    /\ urlCase = CHOOSE c \in UrlCases : c.pad = <<"", "">> /\ c.prefix = ""
                     /\ c.host.text = "" /\ c.segment.text = ""
                     /\ c.tail = "" /\ c.suffix = ""
    /\ urlInput = ""
    /\ urlResult = Pending

ModalIdle ==
    /\ modalOpen = FALSE
    /\ query = ""
    /\ photos = <<>>
    /\ photosByProvider = GroupByProvider(<<>>)
    /\ container = <<>>
    /\ srch = [i \in SearchIds |-> UnusedSearch]
    /\ contentEl = <<>>
    /\ activeTab = "unsplash"
    /\ tabDom = NoTabs
    /\ lastClick = NoClick
    /\ httpLog = <<>>
    /\ consoleLog = <<>>
    /\ caught = <<>>

FormatIdle ==
    /\ fmtCase = [isAiGenerated |-> "undefined", source |-> "Pexels", width |-> 0, height |-> 0]
    /\ fmtResult = [aiStatus |-> NotApplied, maxPrintSize |-> NotApplied]

SaveIdle ==
    /\ folderExists = FALSE
    /\ vaultFiles = {}
    /\ editorInserts = <<>>
    /\ notices = <<>>
    /\ sv = [i \in SaveIds |-> UnusedSave]
    /\ cursor = FirstCursor

\* the URL detector alone, on every input of UrlCases
InitURL ==
    /\ PreviewIdle
    /\ PagesIdle
    /\ urlCase \in UrlCases
    /\ urlInput = UrlText(urlCase)
    /\ urlResult = Pending
    /\ settings = DEFAULT_SETTINGS
    /\ FormatIdle
    /\ ModalIdle
    /\ SaveIdle

\* a call detectPhotoURL(urlInput)
Detect ==
    /\ urlResult = Pending
    /\ urlResult' = detectPhotoURL(urlInput)
    /\ UNCHANGED <<urlCase, urlInput, fmtVars, pageVars, settings, previewVars, modalVars,
                   saveVars, historyVars>>

NextURL == Detect

SpecURL == InitURL /\ [][NextURL]_vars

\* the search modal: the plugin is loaded with any settings
Init ==
    /\ PreviewIdle
    /\ PagesIdle
    /\ UrlIdle
    /\ settings \in SettingsSet
    /\ FormatIdle
    /\ ModalIdle
    /\ SaveIdle

Next ==
    \/ \E q \in Queries : OpenModal(q)
    \/ \E i \in SearchIds, q \in Queries : performSearch(i, q)
    \/ \E i \in SearchIds :
           /\ srch[i].pc = "fetching"
           /\ \E outcome \in FetchOutcomes(srch[i].urlInfo.provider, srch[i].urlInfo.id) :
                  FetchRespond(i, outcome)
    \/ \E i \in SearchIds :
           /\ srch[i].pc = "searching"
           /\ \E outcome \in SearchOutcomes(ProviderSeq[srch[i].cur]) :
                  SearchRespond(i, outcome)

Spec == Init /\ [][Next]_vars

\* the search modal with its tabs and its closing: the plugin is loaded
\* with the Pixabay key, with or without the other keys, and any default
\* provider
ModalSettings ==
    [pexelsApiKey : ApiKeyValues, unsplashApiKey : {""},
     pixabayApiKey : {"KEY"}, saveLocation : {"Images/PhotoSearch"},
     includeAiImages : {FALSE}, defaultProvider : ProviderSet,
     saveMetadata : {TRUE}]

InitModal ==
    /\ PreviewIdle
    /\ PagesIdle
    /\ UrlIdle
    /\ FormatIdle
    /\ ModalIdle
    /\ SaveIdle
    /\ settings \in ModalSettings

NextModal ==
    \/ Next
    \/ \E p \in ProviderSet : ClickTab(p)
    \/ CloseModal

SpecModal == InitModal /\ [][NextModal]_vars

\* the results of a search are shown: each provider is on page 1 of 1 or of
\* MaxPages
InitPages ==
    /\ PreviewIdle
    /\ UrlIdle
    /\ FormatIdle
    /\ ModalIdle
    /\ SaveIdle
    /\ settings = DEFAULT_SETTINGS
    /\ pages \in [ProviderSet -> {FirstPage(t) : t \in {1, MaxPages}}]
    /\ pageFetches = {}
    /\ pageView = [p \in ProviderSet |-> addPaginationControls(pages[p])]
    /\ pageLog = <<>>
    /\ pageNotices = <<>>

NextPages ==
    \/ \E p \in ProviderSet : ClickNext(p)
    \/ \E p \in ProviderSet : ClickPrevious(p)
    \/ \E f \in pageFetches, outcome \in PageOutcomes : PageRespond(f, outcome)

SpecPages == InitPages /\ [][NextPages]_vars

\* the modal with the results of a Pexels search and the previews of its
\* photos
PreviewSettings ==
    [DEFAULT_SETTINGS EXCEPT !.pexelsApiKey = "KEY", !.defaultProvider = "pexels",
                             !.includeAiImages = TRUE]

InitPreview ==
    /\ PreviewIdle
    /\ PagesIdle
    /\ UrlIdle
    /\ FormatIdle
    /\ ModalIdle
    /\ SaveIdle
    /\ settings = PreviewSettings

NextPreview ==
    \/ OpenModal("sunset")
    \/ \E i \in SearchIds :
           /\ srch[i].pc = "searching"
           /\ \E outcome \in SearchOutcomes(ProviderSeq[srch[i].cur]) :
                  SearchRespond(i, outcome)
    \/ \E k \in 1..Len(photos) : ClickThumbnail(photos[k])
    \/ \E o \in DOMAIN overlays : Animate(o)
    \/ \E o \in DOMAIN overlays, kind \in {"close", "background"} : ClickDismiss(o, kind)
    \/ PressEscape
    \/ \E o \in DOMAIN overlays : ClickSelect(o)
    \/ TimerFires
    \/ CloseModal

SpecPreview == InitPreview /\ [][NextPreview]_vars

\* savePhoto alone: the plugin is loaded with every API key set, the save
\* folder may exist, with or without a file of an earlier session
SaveSettings ==
    {[pexelsApiKey |-> "KEY", unsplashApiKey |-> "KEY", pixabayApiKey |-> "KEY",
      saveLocation |-> loc, includeAiImages |-> FALSE,
      defaultProvider |-> "unsplash", saveMetadata |-> TRUE] : loc \in SaveLocations}

InitSave ==
    /\ PreviewIdle
    /\ PagesIdle
    /\ UrlIdle
    /\ FormatIdle
    /\ ModalIdle
    /\ settings \in SaveSettings
    /\ folderExists \in BOOLEAN
    /\ vaultFiles \in (IF folderExists THEN InitialVaults(settings.saveLocation) ELSE {{}})
    /\ editorInserts = <<>>
    /\ notices = <<>>
    /\ sv = [i \in SaveIds |-> UnusedSave]
    /\ cursor = FirstCursor

NextSave ==
    \/ \E i \in SaveIds, photo \in SavePhotos, q \in SaveQueries : savePhoto(i, photo, q)
    \/ \E i \in SaveIds : FolderChecked(i)
    \/ \E i \in SaveIds, ok \in BOOLEAN : FolderCreated(i, ok)
    \/ \E i \in SaveIds : PathChecked(i)
    \/ \E i \in SaveIds, outcome \in DownloadOutcomes : Downloaded(i, outcome)
    \/ \E i \in SaveIds, ok \in BOOLEAN : Written(i, ok)
    \/ \E i \in SaveIds, activeView \in BOOLEAN : Delayed(i, activeView)

SpecSave == InitSave /\ [][NextSave]_vars

\* savePhoto alone, every pending exists(finalPath) resolving eventually:
\* weak fairness of PathChecked(i), which is enabled exactly while
\* invocation i awaits exists(finalPath)
SpecSaveFair ==
    /\ InitSave /\ [][NextSave]_vars
    /\ \A i \in SaveIds :
           []<>(sv[i].pc # "existsPath") \/ []<><<PathChecked(i)>>_vars

\* searches started while earlier ones are in flight: the Pexels key is
\* set, the modal is opened with "sunset" and the user searches again
OverlapQueries == {"sunset", "beach"}

InitOverlap ==
    /\ PreviewIdle
    /\ PagesIdle
    /\ UrlIdle
    /\ FormatIdle
    /\ ModalIdle
    /\ SaveIdle
    /\ settings = PreviewSettings

NextOverlap ==
    \/ OpenModal("sunset")
    \/ \E i \in SearchIds, q \in OverlapQueries : performSearchOverlapping(i, q)
    \/ \E i \in SearchIds :
           /\ srch[i].pc = "searching"
           /\ \E outcome \in SearchOutcomes(ProviderSeq[srch[i].cur]) :
                  SearchRespond(i, outcome)

SpecOverlap == InitOverlap /\ [][NextOverlap]_vars

\* savePhoto called again while earlier calls are in flight, for the same
\* photo with queries of the same sanitized form
InitSaveOverlap ==
    /\ PreviewIdle
    /\ PagesIdle
    /\ UrlIdle
    /\ FormatIdle
    /\ ModalIdle
    /\ settings = [DEFAULT_SETTINGS EXCEPT !.pexelsApiKey = "KEY"]
    /\ folderExists \in BOOLEAN
    /\ vaultFiles \in (IF folderExists THEN InitialVaults(settings.saveLocation) ELSE {{}})
    /\ editorInserts = <<>>
    /\ notices = <<>>
    /\ sv = [i \in SaveIds |-> UnusedSave]
    /\ cursor = FirstCursor

NextSaveOverlap ==
    \/ \E i \in SaveIds, q \in SaveQueries :
           savePhotoOverlapping(i, PexelsPhoto(PexelsRaw2), q)
    \/ \E i \in SaveIds : FolderChecked(i)
    \/ \E i \in SaveIds, ok \in BOOLEAN : FolderCreated(i, ok)
    \/ \E i \in SaveIds : PathChecked(i)
    \/ \E i \in SaveIds, outcome \in DownloadOutcomes : Downloaded(i, outcome)
    \/ \E i \in SaveIds, ok \in BOOLEAN : Written(i, ok)
    \/ \E i \in SaveIds, activeView \in BOOLEAN : Delayed(i, activeView)

SpecSaveOverlap == InitSaveOverlap /\ [][NextSaveOverlap]_vars

\* savePhoto while the user works in the editor: the Save Metadata toggle
\* of the settings tab is on or off, the cursor moves and notes are switched
\* at any time
EditorSettings ==
    {[DEFAULT_SETTINGS EXCEPT !.pexelsApiKey = "KEY", !.saveMetadata = b] : b \in BOOLEAN}

InitEditor ==
    /\ PreviewIdle
    /\ PagesIdle
    /\ UrlIdle
    /\ FormatIdle
    /\ ModalIdle
    /\ settings \in EditorSettings
    /\ folderExists \in BOOLEAN
    /\ vaultFiles = {}
    /\ editorInserts = <<>>
    /\ notices = <<>>
    /\ sv = [i \in SaveIds |-> UnusedSave]
    /\ cursor = FirstCursor

NextEditor ==
    \/ \E i \in SaveIds : savePhoto(i, PexelsPhoto(PexelsRaw1), "sunset")
    \/ \E i \in SaveIds : FolderChecked(i)
    \/ \E i \in SaveIds, ok \in BOOLEAN : FolderCreated(i, ok)
    \/ \E i \in SaveIds : PathChecked(i)
    \/ \E i \in SaveIds, outcome \in DownloadOutcomes : Downloaded(i, outcome)
    \/ \E i \in SaveIds, ok \in BOOLEAN : Written(i, ok)
    \/ \E i \in SaveIds, activeView \in BOOLEAN : Delayed(i, activeView)
    \/ \E c \in EditorPoints : MoveCursor(c)

SpecEditor == InitEditor /\ [][NextEditor]_vars

\* the two formatting functions alone, on every input of FormatCases and
\* with both values of the includeAiImages setting
InitFormat ==
    /\ PreviewIdle
    /\ PagesIdle
    /\ UrlIdle
    /\ ModalIdle
    /\ SaveIdle
    /\ settings \in {[DEFAULT_SETTINGS EXCEPT !.includeAiImages = b] : b \in BOOLEAN}
    /\ fmtCase \in FormatCases
    /\ fmtResult = [aiStatus |-> NotApplied, maxPrintSize |-> NotApplied]

\* a call formatAiStatus(photo.isAiGenerated, photo.source)
FormatAiStatus ==
    /\ fmtResult.aiStatus = NotApplied
    /\ fmtResult' = [fmtResult EXCEPT !.aiStatus =
                         formatAiStatus(fmtCase.isAiGenerated, fmtCase.source)]
    /\ UNCHANGED <<urlVars, pageVars, fmtCase, settings, previewVars, modalVars, saveVars, historyVars>>

\* a call calculateMaxPrintSize(photo.width, photo.height)
CalculateMaxPrintSize ==
    /\ fmtResult.maxPrintSize = NotApplied
    /\ fmtResult' = [fmtResult EXCEPT !.maxPrintSize =
                         calculateMaxPrintSize(fmtCase.width, fmtCase.height)]
    /\ UNCHANGED <<urlVars, pageVars, fmtCase, settings, previewVars, modalVars, saveVars, historyVars>>

NextFormat ==
    \/ FormatAiStatus
    \/ CalculateMaxPrintSize

SpecFormat == InitFormat /\ [][NextFormat]_vars

(***************************************************************************)
(* Claims about detectPhotoURL, checked under SpecURL                      *)
(***************************************************************************)
\* What the parts of an input say the detector should find: the provider of
\* the host and the identifier the last segment holds in that provider's
\* form, when the cleaned input ends with the segment or the segment and '/'.
UrlExpected(c) ==
    LET id == CASE c.host.idForm = "digits" -> c.segment.digits
                []  c.host.idForm = "slug"   -> c.segment.slug
                []  c.host.idForm = "whole"  -> c.segment.whole
                []  OTHER                    -> ""
    IN  IF c.tail = "/edit" \/ id = ""
            THEN NoMatch
            ELSE [provider |-> c.host.provider, id |-> id]

\* The input is one of the documented shapes: a provider's host and path
\* behind the documented scheme, a last segment holding an identifier.
UrlDocumented(c) ==
    /\ UrlExpected(c) # NoMatch
    /\ c.prefix = c.host.scheme

\* C1 (as amended): for every input built from a provider's host and path and
\* a last segment holding an identifier in that provider's form, with or
\* without a trailing slash, surrounding white space, a '?query' or a
\* '#fragment', whatever text precedes the host name, detectPhotoURL returns
\* that provider and that identifier; for every other input it returns null.
C1_DetectsByHostAndSegment ==
    urlResult # Pending => urlResult = UrlExpected(urlCase)

\* C1 witness: a Pixabay URL with an undocumented scheme, a trailing slash,
\* a suffix and leading white space has been detected.
C1_Witness ==
    /\ urlResult # Pending
    /\ urlResult = [provider |-> "pixabay", id |-> "123456"]
    /\ urlCase.prefix = "http://"
    /\ urlCase.tail = "/"
    /\ urlCase.suffix = "#b?a=1"
    /\ urlCase.pad[1] # ""

\* C1 (original): a documented shape gives its provider and identifier, and
\* every input that is not a documented shape gives null.
C1_Original ==
    urlResult # Pending =>
        urlResult = IF UrlDocumented(urlCase) THEN UrlExpected(urlCase) ELSE NoMatch

(***************************************************************************)
(* Claims about the aggregated search, checked under Spec                  *)
(***************************************************************************)
NoKeyConfigured == \A p \in ProviderSet : ApiKey(p) = ""

Started(i) == srch[i].pc # "unused"

Done(i) == srch[i].pc = "done"

\* invocation i is the one started last
Latest(i) == Started(i) /\ \A j \in SearchIds : j > i => ~Started(j)

\* the entries of httpLog of invocation i
EventsOf(i) == LET Mine(e) == e.search = i IN SelectSeq(httpLog, Mine)

\* C2: when none of the three API keys is configured, a search for any query
\* leaves the result set empty, shows the API key error and sends no request.
C2_NoKeysNoRequest ==
    NoKeyConfigured =>
        /\ httpLog = <<>>
        /\ photos = <<>>
        /\ \A i \in SearchIds :
               Started(i) => /\ Done(i)
                             /\ srch[i].returned = <<>>
                             /\ container = <<ApiKeyErrorEl>>

\* C2 witness: without keys, a search for a provider URL after a free-text
\* search has ended.
C2_Witness ==
    /\ NoKeyConfigured
    /\ Done(1) /\ srch[1].query = "sunset"
    /\ Done(2) /\ detectPhotoURL(srch[2].query) # NoMatch

\* what searchPhotos has to return for a free-text query, from the outcomes
\* of the requests: the photos of every configured provider whose request
\* succeeded, as its adapter returns them
RECURSIVE UnionOfSucceeded(_, _)
UnionOfSucceeded(got, k) ==
    IF k > Len(ProviderSeq) THEN <<>>
    ELSE LET p == ProviderSeq[k]
         IN  (IF ApiKey(p) # "" /\ got[p].st = "ok"
                  THEN SearchAdapter(p, got[p].items) ELSE <<>>)
             \o UnionOfSucceeded(got, k + 1)

\* the console.error entries of failed searches of provider p
SearchErrorsLogged(p) ==
    Cardinality({k \in 1..Len(consoleLog) :
                    consoleLog[k] = "Error searching " \o SourceName(p)})

\* C3: for a free-text query, whichever configured providers fail, the search
\* ends normally and returns exactly the photos returned by the configured
\* providers that succeeded; every failure is logged.
C3_PartialResults ==
    /\ \A i \in SearchIds :
           (Done(i) /\ srch[i].called /\ srch[i].urlInfo = NoMatch) =>
               /\ srch[i].returned = UnionOfSucceeded(srch[i].got, 1)
               /\ Latest(i) => photos = srch[i].returned
    /\ \A p \in ProviderSet :
           SearchErrorsLogged(p) =
               Cardinality({i \in SearchIds : srch[i].urlInfo = NoMatch
                                              /\ srch[i].got[p].st = "fail"})

\* C3 witness: a search in which Pexels succeeded, Unsplash failed and
\* Pixabay succeeded has returned the photos of Pexels and Pixabay.
C3_Witness ==
    \E i \in SearchIds :
        /\ Done(i)
        /\ srch[i].got["pexels"].st = "ok"
        /\ srch[i].got["unsplash"].st = "fail"
        /\ srch[i].got["pixabay"].st = "ok"
        /\ Len(srch[i].returned) = 2
        /\ photos = srch[i].returned

C6_RequestsNotSerialized ==
    \A i \in SearchIds :
        (srch[i].called /\ srch[i].urlInfo = NoMatch) =>
            LET ev == EventsOf(i) IN
            /\ \A k \in 1..Len(ev) :
                   /\ ev[k].endpoint = "search"
                   /\ ApiKey(ev[k].provider) # ""
            /\ Done(i) =>
                   \A p \in ProviderSet :
                       ApiKey(p) # "" =>
                           \E k \in 1..Len(ev) : ev[k].ev = "send" /\ ev[k].provider = p
            /\ \A k \in 1..Len(ev) :
                   ev[k].ev = "send" =>
                       \A j \in 1..(k - 1) :
                           ~(ev[j].ev = "recv" /\ ev[j].provider # ev[k].provider)

\* the part of C6 the code keeps: requests go to the configured providers,
\* and to all of them
C6_RequestsToConfiguredOnly ==
    \A i \in SearchIds :
        (srch[i].called /\ srch[i].urlInfo = NoMatch) =>
            LET ev == EventsOf(i) IN
            /\ \A k \in 1..Len(ev) :
                   /\ ev[k].endpoint = "search"
                   /\ ApiKey(ev[k].provider) # ""
            /\ Done(i) =>
                   \A p \in ProviderSet :
                       ApiKey(p) # "" =>
                           \E k \in 1..Len(ev) : ev[k].ev = "send" /\ ev[k].provider = p

\* C11 (the claim): while 'include AI images' is off, no photo returned by
\* searchPhotos, by text search or by fetch-by-id, has isAiGenerated = true;
\* while it is on, every photo Pexels answered with is passed through.
C11_NoAiPhotoWhileExcluded ==
    \A i \in SearchIds :
        /\ ~settings.includeAiImages =>
               \A k \in 1..Len(srch[i].returned) :
                   srch[i].returned[k].isAiGenerated # "true"
        /\ (settings.includeAiImages /\ Done(i) /\ srch[i].got["pexels"].st = "ok") =>
               \A k \in 1..Len(srch[i].got["pexels"].items) :
                   \E n \in 1..Len(srch[i].returned) :
                       srch[i].returned[n] = PexelsPhoto(srch[i].got["pexels"].items[k])

\* the photos the adapters have built for invocation i
PhotosBuilt(i) == srch[i].results \o srch[i].returned

\* C14: every Photo an adapter built, by text search or by fetch-by-id, from
\* an item of provider p's response has the source name of p and the id
\* 'p-' followed by the item's id; isAiGenerated is the item's boolean flag
\* for Pexels and undefined for Unsplash and Pixabay; photos of different
\* sources never have equal ids.
C14_SourceAndIdPrefix ==
    \A i \in SearchIds :
        LET built == PhotosBuilt(i) IN
        /\ \A k \in 1..Len(built) :
               \E p \in ProviderSet :
                   /\ srch[i].got[p].st = "ok"
                   /\ built[k].source = SourceName(p)
                   /\ LitAt(built[k].id, p \o "-", 1)
                   /\ \E n \in 1..Len(srch[i].got[p].items) :
                          LET item == srch[i].got[p].items[n]
                          IN  /\ built[k].id = p \o "-" \o item.id
                              /\ built[k].isAiGenerated =
                                     IF p = "pexels"
                                         THEN (IF item.ai_generated THEN "true" ELSE "false")
                                         ELSE "undefined"
        /\ \A k, n \in 1..Len(built) :
               built[k].source # built[n].source => built[k].id # built[n].id

\* a text search has returned photos of the three providers, one of them
\* flagged by Pexels, and a fetch-by-id has returned a photo
C14_Witness ==
    \E i, j \in SearchIds :
        /\ Done(i) /\ Done(j)
        /\ {srch[i].returned[k].source : k \in 1..Len(srch[i].returned)}
               = {"Pexels", "Unsplash", "Pixabay"}
        /\ \E k \in 1..Len(srch[i].returned) : srch[i].returned[k].isAiGenerated = "true"
        /\ srch[j].urlInfo # NoMatch
        /\ Len(srch[j].returned) = 1

(***************************************************************************)
(* Claims about savePhoto, checked under SpecSave                          *)
(***************************************************************************)
NoticesOf(i) == LET Of(n) == n.save = i IN SelectSeq(notices, Of)

InsertsOf(i) == LET Of(e) == e.save = i IN SelectSeq(editorInserts, Of)

FilesOf(i) == {f \in vaultFiles : f.by = i}

\* the last download request of invocation i ended without image data
DownloadFailed(i) ==
    /\ sv[i].requests # <<>>
    /\ sv[i].requests[Len(sv[i].requests)].outcome \in {"throw", "empty"}

\* the download of invocation i gave image data and createBinary rejected
WriteFailed(i) ==
    /\ sv[i].pc = "done"
    /\ ~sv[i].wrote
    /\ sv[i].requests # <<>>
    /\ sv[i].requests[Len(sv[i].requests)].outcome = "data"

\* C4: when savePhoto calls run one after another, every successful call
\* writes to a path no file of the save folder has, its file stays in the
\* vault, and a call whose base filename an earlier successful call had
\* writes to another path, under the base filename with a numeric suffix.
C4_SequentialSavesNeverOverwrite ==
    \A j \in SaveIds :
        sv[j].wrote =>
            /\ ~sv[j].overwrote
            /\ VaultFile(sv[j].finalPath, j) \in vaultFiles
            /\ \A i \in 1..(j - 1) :
                   (sv[i].wrote /\ sv[i].baseFilename = sv[j].baseFilename) =>
                       /\ sv[j].finalPath # sv[i].finalPath
                       /\ sv[j].finalFilename # sv[j].baseFilename
                       /\ \E k \in 1..(MaxSaves + 1) :
                              sv[j].finalFilename = SuffixedFilename(sv[j].baseFilename, k)

\* two calls with the same base filename both wrote, the second after it
\* went past a suffixed name left by an earlier session
C4_Witness ==
    \E i, j \in SaveIds :
        /\ i < j
        /\ sv[i].wrote /\ sv[j].wrote
        /\ sv[i].searchQuery # sv[j].searchQuery
        /\ sv[i].baseFilename = sv[j].baseFilename
        /\ sv[j].counter = 3
        /\ Cardinality(vaultFiles) = 3

\* C7: when the download of a savePhoto call has failed (the request threw
\* or gave empty data, for Unsplash after the second request), the call has
\* ended, it wrote no file, inserted no metadata block, returned nothing and
\* showed the error Notice.
C7_DownloadFailureAbortsSave ==
    \A i \in SaveIds :
        DownloadFailed(i) =>
            /\ sv[i].pc = "done"
            /\ ~sv[i].wrote
            /\ FilesOf(i) = {}
            /\ InsertsOf(i) = <<>>
            /\ sv[i].returned = ""
            /\ \E k \in 1..Len(notices) : notices[k].save = i /\ notices[k].kind = "error"

\* an Unsplash save whose two requests failed, and a save of another
\* provider whose request gave empty data
C7_Witness ==
    \E i, j \in SaveIds :
        /\ DownloadFailed(i) /\ DownloadFailed(j)
        /\ sv[i].photo.source = "Unsplash" /\ Len(sv[i].requests) = 2
        /\ sv[j].photo.source # "Unsplash" /\ sv[j].requests[1].outcome = "empty"

\* C8: every metadata block in the editor was inserted by a call whose
\* createBinary had completed, and the file name in it is the name, in the
\* save folder, of the file that call wrote; a call whose createBinary
\* failed inserted nothing.
C8_MetadataAfterWrite ==
    /\ \A k \in 1..Len(editorInserts) :
           LET e == editorInserts[k]
           IN  /\ sv[e.save].wrote
               /\ VaultFile(PathOf(settings.saveLocation, e.filename), e.save) \in vaultFiles
    /\ \A i \in SaveIds : sv[i].inserted => sv[i].wrote
    /\ \A i \in SaveIds : WriteFailed(i) => InsertsOf(i) = <<>> /\ FilesOf(i) = {}

\* a call inserted the block of a file saved under a suffixed name, and the
\* createBinary of another call failed
C8_Witness ==
    \E i, j \in SaveIds :
        /\ sv[i].inserted
        /\ sv[i].finalFilename # sv[i].baseFilename
        /\ InsertsOf(i) # <<>>
        /\ WriteFailed(j)

\* C9: a savePhoto call that has ended has shown exactly one Notice: the
\* success Notice when it wrote the image, and then it returned the path;
\* the error Notice otherwise, and then it returned nothing.  A call that
\* has not ended has shown none.
C9_ExactlyOneNotice ==
    \A i \in SaveIds :
        IF sv[i].pc = "done"
            THEN /\ Len(NoticesOf(i)) = 1
                 /\ sv[i].wrote =>
                        /\ NoticesOf(i)[1].kind = "saved"
                        /\ sv[i].returned = sv[i].finalPath
                 /\ ~sv[i].wrote =>
                        /\ NoticesOf(i)[1].kind = "error"
                        /\ sv[i].returned = ""
            ELSE NoticesOf(i) = <<>>

\* a call that failed at createFolder and a call that wrote the image have
\* both ended
C9_Witness ==
    \E i, j \in SaveIds :
        /\ sv[i].pc = "done" /\ sv[i].counter = 0 /\ ~sv[i].wrote
        /\ sv[j].pc = "done" /\ sv[j].wrote
        /\ Len(notices) = 2

\* C10: every caught error has a console entry: no catch block discards its
\* error, and there are at least as many console entries as caught errors.
C10_EveryCaughtErrorLogged ==
    /\ \A k \in 1..Len(caught) : caught[k].logged
    /\ Len(consoleLog) >= Len(caught)

(***************************************************************************)
(* Claims about the metadata formatting, checked under SpecFormat          *)
(***************************************************************************)
\* C12: formatAiStatus gives 'Yes' for true and 'No' for false; for an
\* undefined flag it gives 'No (filtered)' when the source is Unsplash or
\* Pixabay and the setting excludes AI images, and 'Unknown' otherwise.
C12_AiStatusTable ==
    fmtResult.aiStatus # NotApplied =>
        fmtResult.aiStatus =
            CASE fmtCase.isAiGenerated = "true"  -> "Yes"
              [] fmtCase.isAiGenerated = "false" -> "No"
              [] OTHER ->
                    IF fmtCase.source \in {"Unsplash", "Pixabay"}
                           /\ ~settings.includeAiImages
                        THEN "No (filtered)"
                        ELSE "Unknown"

\* formatAiStatus has been applied to an undefined flag in all four ways:
\* this state is one of them, a Pixabay photo with AI images excluded
C12_Witness ==
    /\ fmtResult.aiStatus = "No (filtered)"
    /\ fmtCase.isAiGenerated = "undefined"
    /\ fmtCase.source = "Pixabay"
    /\ ~settings.includeAiImages

\* the text s holds the text sub
Contains(s, sub) == \E i \in 1..Len(s) : LitAt(s, sub, i)

\* tenths is a tenth nearest to num / den
NearestTenth(tenths, num, den) ==
    /\ 2 * (10 * num - tenths * den) <= den
    /\ 2 * (tenths * den - 10 * num) <= den

\* C13 (as amended): calculateMaxPrintSize renders
\* W" × H" (Wc × Hc cm) at 300 DPI, where W and H are pixels / 300 and Wc
\* and Hc are pixels / 300 * 2.54 of the unrounded inches, each rounded to a
\* nearest tenth; for 3000 by 2000 pixels the text is
\* 10.0" × 6.7" (25.4 × 16.9 cm) at 300 DPI.
C13_PrintSizeRendered ==
    fmtResult.maxPrintSize # NotApplied =>
        /\ \E wi \in {fmtCase.width \div 30, fmtCase.width \div 30 + 1},
              hi \in {fmtCase.height \div 30, fmtCase.height \div 30 + 1},
              wc \in {(fmtCase.width * 127) \div 1500, (fmtCase.width * 127) \div 1500 + 1},
              hc \in {(fmtCase.height * 127) \div 1500, (fmtCase.height * 127) \div 1500 + 1} :
               /\ NearestTenth(wi, fmtCase.width, 300)
               /\ NearestTenth(hi, fmtCase.height, 300)
               /\ NearestTenth(wc, fmtCase.width * 254, 30000)
               /\ NearestTenth(hc, fmtCase.height * 254, 30000)
               /\ fmtResult.maxPrintSize =
                      Fixed1(wi) \o "\" × " \o Fixed1(hi) \o "\" (" \o Fixed1(wc)
                          \o " × " \o Fixed1(hc) \o " cm) at 300 DPI"
        /\ (fmtCase.width = 3000 /\ fmtCase.height = 2000) =>
               fmtResult.maxPrintSize = "10.0\" × 6.7\" (25.4 × 16.9 cm) at 300 DPI"

\* calculateMaxPrintSize has been applied to 3000 by 2000 pixels
C13_Witness ==
    /\ fmtCase.width = 3000
    /\ fmtCase.height = 2000
    /\ Contains(fmtResult.maxPrintSize, "(25.4 × 16.9 cm)")

\* C13 (original): for 3000 by 2000 pixels the rendered print size is
\* "10.0in × 6.7in" together with 25.4 × 16.9 cm.
C13_Original ==
    (fmtResult.maxPrintSize # NotApplied /\ fmtCase.width = 3000 /\ fmtCase.height = 2000) =>
        /\ Contains(fmtResult.maxPrintSize, "10.0in × 6.7in")
        /\ Contains(fmtResult.maxPrintSize, "25.4 × 16.9 cm")

(***************************************************************************)
(* Claims about the modal: closing, the default tab, tab clicks            *)
(***************************************************************************)
\* invocation i of searchAndDisplayPhotos is awaiting a response
InFlight(i) == srch[i].pc \in {"fetching", "searching"}

\* C15: when the modal has been closed while a request was in flight, the
\* completion of the request changes neither this.photos nor
\* this.photosByProvider nor the emptied contentEl.
C15_ResultDroppedAfterClose ==
    [][(~modalOpen /\ \E i \in SearchIds : InFlight(i)) =>
           /\ photos' = photos
           /\ photosByProvider' = photosByProvider
           /\ contentEl' = contentEl]_vars

\* the providers whose tab carries the class active
ActiveTabs(dom) == {p \in ProviderSet : dom.tabs[p].active}

\* the providers whose tab content carries the class active
ActiveContents(dom) == {p \in ProviderSet : dom.contents[p].active}

LastLoadedPage(log, p) ==
    LET oks == {i \in 1..Len(log) : log[i].kind = "ok" /\ log[i].provider = p}
    IN  IF oks = {} THEN 1 ELSE log[SetMax(oks)].page

\* this step is the end of the page fetch f with outcome kind
PageAnswered(f, kind) ==
    /\ f \in pageFetches
    /\ f \notin pageFetches'
    /\ Len(pageLog') = Len(pageLog) + 1
    /\ pageLog'[Len(pageLog')].kind = kind

\* C16: when a page fetch of a provider fails, the provider's page number
\* becomes the last page loaded successfully, its loading flag is cleared
\* and a Notice is shown; the pagination state and the controls of the other
\* providers stay as they are.
C16_FailedPageReverts ==
    [][\A p \in ProviderSet : \A f \in FetchesOf(p) :
           PageAnswered(f, "error") =>
               /\ pages'[p].currentPage = LastLoadedPage(pageLog, p)
               /\ ~pages'[p].loading
               /\ pages'[p].totalPages = pages[p].totalPages
               /\ Len(pageNotices') = Len(pageNotices) + 1
               /\ \A q \in ProviderSet \ {p} :
                      pages'[q] = pages[q] /\ pageView'[q] = pageView[q]]_vars

\* the fetch of page 3 of pexels failed after page 2 had been loaded: the
\* provider is back on page 2 and the Notice is shown
C16_Witness ==
    /\ Len(pageLog) = 4
    /\ pageLog[2] = [kind |-> "ok", provider |-> "pexels", page |-> 2]
    /\ pageLog[4] = [kind |-> "error", provider |-> "pexels", page |-> 3]
    /\ pages["pexels"].currentPage = 2
    /\ ~pages["pexels"].loading
    /\ Len(pageNotices) = 1

\* C17: the re-render at the end of a successful page load sees the loading
\* flag cleared and shows 'Page X of Y'; at the end of any page fetch, and
\* whenever no fetch of the provider is in flight, the provider is not
\* loading.
C17_LoadingClearedBeforeRender ==
    /\ [](\A p \in ProviderSet : FetchesOf(p) = {} => ~pages[p].loading)
    /\ [][\A p \in ProviderSet : \A f \in FetchesOf(p) :
              /\ (PageAnswered(f, "ok") \/ PageAnswered(f, "error")) =>
                     ~pages'[p].loading
              /\ PageAnswered(f, "ok") =>
                     pageView'[p] = [kind |-> "info", page |-> f.page,
                                     of |-> pages[p].totalPages]]_vars

\* page 2 of pixabay has been loaded: the controls show 'Page 2 of MaxPages'
C17_Witness ==
    /\ pageLog # <<>>
    /\ pageLog[Len(pageLog)] = [kind |-> "ok", provider |-> "pixabay", page |-> 2]
    /\ pageView["pixabay"] = [kind |-> "info", page |-> 2, of |-> MaxPages]
    /\ ~pages["pixabay"].loading

\* C18: at most one page fetch of a provider is in flight at any time.
C18_OneFetchPerProvider ==
    \A p \in ProviderSet : Cardinality(FetchesOf(p)) <= 1

(***************************************************************************)
(* Claims about the tab shown with the results                             *)
(***************************************************************************)
\* C30: whenever results with at least one photo are rendered, the tab that
\* is active then holds at least one photo and belongs to a provider whose
\* API key is configured.
C30_ActiveTabShowsPhoto ==
    [][(tabDom' # tabDom /\ tabDom'.rendered /\ lastClick' = lastClick) =>
           /\ tabDom'.tabs[activeTab'].count >= 1
           /\ ApiKey(activeTab') # ""]_vars

(***************************************************************************)
(* Claims about savePhoto: download attempts, the file name loop           *)
(***************************************************************************)
\* the download request r of a save ended without image data
AttemptFailed(r) == r.outcome \in {"throw", "empty"}

\* C25: an Unsplash photo is requested first without the Client-ID header
\* and, exactly when that attempt throws or gives empty data, once more with
\* it, never more than twice; a Pexels or Pixabay photo is requested exactly
\* once, without that header; when the last attempt fails the save fails.
C25_DownloadAttempts ==
    \A i \in SaveIds :
        LET r == sv[i].requests
            n == Len(r)
        IN  /\ n <= 2
            /\ sv[i].pc \in {"download", "downloadAuth", "createBinary", "delay"} => n >= 1
            /\ sv[i].wrote => n >= 1
            /\ n >= 1 => ~r[1].auth
            /\ IF sv[i].photo.source = "Unsplash"
                   THEN n >= 1 => (n = 2 <=> AttemptFailed(r[1]))
                   ELSE n <= 1
            /\ n = 2 => r[2].auth
            /\ (n >= 1 /\ AttemptFailed(r[n])) =>
                   /\ sv[i].pc = "done"
                   /\ ~sv[i].wrote
                   /\ sv[i].returned = ""

\* an Unsplash photo was saved with the second attempt, after an empty first
\* one, and a Pexels photo with its only request
C25_Witness ==
    \E i, j \in SaveIds :
        /\ sv[i].photo.source = "Unsplash" /\ sv[i].wrote
        /\ Len(sv[i].requests) = 2
        /\ sv[i].requests[1] = [auth |-> FALSE, outcome |-> "empty"]
        /\ sv[i].requests[2] = [auth |-> TRUE, outcome |-> "data"]
        /\ sv[j].photo.source = "Pexels" /\ sv[j].wrote
        /\ Len(sv[j].requests) = 1

\* the path of the file name base_k in the save folder
SuffixedPath(base, k) == PathOf(settings.saveLocation, SuffixedFilename(base, k))

\* C26: when the loop of savePhoto ends, the chosen path does not exist; the
\* name is the base name exactly when no file of that name exists, and
\* otherwise base_k with k the smallest integer >= 1 whose file does not
\* exist; the loop tries at most one name more than the vault holds files,
\* and every pass of it comes to an end.
C26_FilenameSelection ==
    /\ [][\A i \in SaveIds :
              (sv[i].pc = "existsPath" /\ sv'[i].pc = "download") =>
                  LET base == sv[i].baseFilename
                  IN  /\ ~PathExists(sv[i].finalPath)
                      /\ sv'[i].finalPath = sv[i].finalPath
                      /\ sv[i].finalPath = PathOf(settings.saveLocation, sv[i].finalFilename)
                      /\ IF ~PathExists(PathOf(settings.saveLocation, base))
                             THEN sv[i].finalFilename = base
                             ELSE \E k \in 1..Cardinality(vaultFiles) :
                                      /\ sv[i].finalFilename = SuffixedFilename(base, k)
                                      /\ sv[i].finalFilename # base
                                      /\ \A j \in 1..(k - 1) :
                                             PathExists(SuffixedPath(base, j))]_vars
    /\ [](\A i \in SaveIds :
              sv[i].pc = "existsPath" => sv[i].counter <= Cardinality(vaultFiles) + 1)
    /\ \A i \in SaveIds : (sv[i].pc = "existsPath") ~> (sv[i].pc # "existsPath")

\* a save has chosen the name base_2, with the base name and base_1 in the
\* vault, and written it
C26_Witness ==
    \E i \in SaveIds :
        /\ sv[i].wrote
        /\ sv[i].finalFilename = SuffixedFilename(sv[i].baseFilename, 2)
        /\ PathExists(PathOf(settings.saveLocation, sv[i].baseFilename))
        /\ PathExists(SuffixedPath(sv[i].baseFilename, 1))

(***************************************************************************)
(* Claims about the preview overlay                                        *)
(***************************************************************************)
\* the overlays attached to the document
Attached == {o \in DOMAIN overlays : overlays[o].attached}

\* C21: once the modal has been closed and every removal timer has fired,
\* no preview overlay is attached to the document.
C21_NoOverlayAfterClose ==
    (Started(1) /\ ~modalOpen /\ timers = 0) => Attached = {}

\* C22: savePhoto is called only by a click on Select Image of a visible
\* overlay, with the photo the overlay was opened for and this.query; a click
\* on a thumbnail, on Close or on the background and the Escape key start no
\* save and insert nothing into the note.
C22_TwoStepSelection ==
    [][/\ sv' # sv =>
              \E o \in Visible, i \in SaveIds :
                  /\ uiEvent' = [kind |-> "select", overlay |-> o]
                  /\ sv[i].pc = "unused"
                  /\ sv'[i].photo = overlays[o].photo
                  /\ sv'[i].searchQuery = query
                  /\ \A j \in SaveIds \ {i} : sv'[j] = sv[j]
       /\ (uiEvent' # uiEvent /\ uiEvent'.kind # "select") =>
              /\ uiEvent'.kind \in {"thumbnail", "close", "background", "escape"}
              /\ sv' = sv
              /\ editorInserts' = editorInserts
              /\ vaultFiles' = vaultFiles]_vars

\* the second preview, opened for another photo than the first, was
\* selected: savePhoto is called with its photo
C22_Witness ==
    /\ uiEvent = [kind |-> "select", overlay |-> 2]
    /\ Len(overlays) = 2
    /\ overlays[1].photo # overlays[2].photo
    /\ overlays[1].dismissed
    /\ sv[1].pc = "existsFolder"
    /\ sv[1].photo = overlays[2].photo
    /\ sv[1].searchQuery = "sunset"
    /\ ~modalOpen

\* C29: at most one preview overlay is attached at a time, and an overlay
\* the user has not dismissed is attached: no removal timer of an earlier
\* preview removes it.
C29_OnePreviewUntilDismissed ==
    /\ Cardinality(Attached) <= 1
    /\ (overlays # <<>> /\ ~overlays[Len(overlays)].dismissed)
           => overlays[Len(overlays)].attached

(***************************************************************************)
(* Claims about the metadata block and the editor                          *)
(***************************************************************************)
\* C23: with the Save Metadata setting off a successful savePhoto writes the
\* image and inserts no metadata block; every block inserted belongs to a
\* save made with the setting on.
C23_SaveMetadataControlsInsertion ==
    /\ \A i \in SaveIds :
           (sv[i].pc = "done" /\ sv[i].wrote /\ ~settings.saveMetadata)
               => ~sv[i].inserted
    /\ editorInserts # <<>> => settings.saveMetadata

\* C27: every metadata block is inserted at the insertion point that was
\* current when its savePhoto was called; a save that inserted nothing
\* still wrote its image.
C27_InsertAtRequestedPoint ==
    /\ \A k \in 1..Len(editorInserts) :
           editorInserts[k].at = sv[editorInserts[k].save].requestedAt
    /\ \A i \in SaveIds :
           (sv[i].pc = "done" /\ sv[i].returned # "" /\ ~sv[i].inserted)
               => \E f \in vaultFiles : f.path = sv[i].returned /\ f.by = i

(***************************************************************************)
(* Claims about overlapping calls                                          *)
(***************************************************************************)
\* the invocations of savePhoto that have chosen finalPath and not returned
Saving == {i \in SaveIds : sv[i].pc \in {"download", "downloadAuth", "createBinary", "delay"}}

\* C24: two calls of savePhoto in flight at the same time never hold the
\* same final path, no createBinary replaces a file, and every call that
\* returned a path has its own file in the vault.
C24_OverlappingSavesDistinct ==
    /\ \A i, j \in Saving : i # j => sv[i].finalPath # sv[j].finalPath
    /\ \A i \in SaveIds : ~sv[i].overwrote
    /\ \A i \in SaveIds :
           sv[i].returned # "" => \E f \in vaultFiles : f.path = sv[i].returned /\ f.by = i

\* the invocation of searchAndDisplayPhotos started last
LastSearch == SetMax({i \in SearchIds : Started(i)})

\* C28: once every search started in the modal has completed, the photos
\* held are those the search started last returned, the results container
\* holds one rendering of them, and this.query, which Select Image passes to
\* savePhoto, is the query of the search that returned them.
C28_LatestSearchWins ==
    (Started(2) /\ \A i \in SearchIds : Started(i) => Done(i)) =>
        /\ photos = srch[LastSearch].returned
        /\ container = displayPhotos(<<>>, srch[LastSearch].returned, srch[LastSearch].query)
        /\ photos # <<>> =>
               \E i \in SearchIds : srch[i].returned = photos /\ srch[i].query = query

=============================================================================
